---- MODULE Spec2Model ----
(***************************************************************************)
(* A model of the echo server (cmd/echo-server/main.go): the HTTP handler  *)
(* with its four transports (plain echo, UI page, SSE stream, WebSocket    *)
(* echo session), the environment-driven response headers and the server  *)
(* hostname toggle; the unary Echo call of the gRPC server; and main with  *)
(* its two listeners; the pet store of openapi/petstore.go with its         *)
(* handlers run as concurrent goroutines; and the WebSocket and SSE        *)
(* sessions of concurrent connections.  Strings are TLA+ strings, read     *)
(* character by character                                                  *)
(* with SubSeq, so that the string functions the handler calls             *)
(* (path.Base, strings.EqualFold, strings.CutPrefix, strings.ReplaceAll,   *)
(* strings.SplitN, the header-key canonicalisation of http.Header.Set)     *)
(* are computed rather than assumed.                                       *)
(***************************************************************************)
EXTENDS Naturals, Integers, Sequences, FiniteSets, TLC

VARIABLES
    environ,        \* os.Environ(): the process environment, a sequence of "KEY=VALUE" lines
    pc,             \* where the handler goroutine of the request in flight stands
    req,            \* the *http.Request being served
    route,          \* which serve* function handler() chose
    sendHostname,   \* handler's local sendServerHostname
    wrHeader,       \* wr.Header(): the handler-side response header map
    resp,           \* what went on the wire: status, the header map frozen at WriteHeader, body chunks
    hostname,       \* "uncalled" | "ok" | "err": what os.Hostname() returned to this request
    wsOpen,         \* the websocket connection is open (Upgrade succeeded, Close not yet run)
    wsIn,           \* frames connection.ReadMessage() returned, in order
    wsOut,          \* frames connection.WriteMessage() delivered, in order
    wsMessage,      \* serveWebSocket's locals messageType, message
    sseId,          \* serveSSE's local id
    sseOut,         \* the events written to the stream, in order
    ticker,         \* "none" | "running" | "stopped": the time.Ticker of serveSSE
    tickerC,        \* ticker.C, a channel of capacity 1: <<>> or <<t>>, t the tick's time
    clock,          \* seconds elapsed on the ticker, the payload of the next tick
    cancelled,      \* req.Context().Done() is closed
    wire,           \* the request in flight as the client sent it: header lines in arrival order
    wsErr,          \* serveWebSocket's local err: "nil", or which call returned the error
    broken,         \* the client connection of the SSE stream is reset: writes to it fail
    rpc,            \* the unary Echo call in flight on the gRPC server
    proc,           \* the process: main, the gRPC goroutine, the ports they listen on
    ps,             \* the PetStore of createRouter: mu, pets, nextID
    petCalls,       \* the pet store handlers running, one goroutine each
    sessions        \* the WebSocket and SSE sessions of concurrent connections

vars == <<environ, pc, req, route, sendHostname, wrHeader, resp, hostname,
          wsOpen, wsIn, wsOut, wsMessage, sseId, sseOut, ticker, tickerC,
          clock, cancelled, wire, wsErr, broken, rpc, proc, ps, petCalls, sessions>>

----------------------------------------------------------------------------
(* Bounds of the model. *)

\* frames a client sends on one websocket connection
MaxFrames == 2
\* ticks one ticker delivers
MaxTicks == 3
\* length of a request path in the dispatch specification
MaxPathLen == 5
\* header lines of a request in the renderer specification
MaxHeaders == 3
\* bytes of the message of an Echo call
MaxMessageLen == 3
\* pets created in the pet store on top of the two it starts with
MaxCreated == 2

----------------------------------------------------------------------------
(* Strings. *)

Ch(s, i) == SubSeq(s, i, i)

UpperLetters == "ABCDEFGHIJKLMNOPQRSTUVWXYZ"
LowerLetters == "abcdefghijklmnopqrstuvwxyz"

LetterIndex(letters, c) ==
    IF \E i \in 1..Len(letters) : Ch(letters, i) = c
    THEN CHOOSE i \in 1..Len(letters) : Ch(letters, i) = c
    ELSE 0

ToLowerCh(c) ==
    IF LetterIndex(UpperLetters, c) # 0
    THEN Ch(LowerLetters, LetterIndex(UpperLetters, c))
    ELSE c

ToUpperCh(c) ==
    IF LetterIndex(LowerLetters, c) # 0
    THEN Ch(UpperLetters, LetterIndex(LowerLetters, c))
    ELSE c

\* strings.EqualFold(s, t) on ASCII strings
EqualFold(s, t) ==
    /\ Len(s) = Len(t)
    /\ \A i \in 1..Len(s) : ToLowerCh(Ch(s, i)) = ToLowerCh(Ch(t, i))

\* strings.Index(s, sep) for a one-character sep: 0 when absent, else the 1-based position
IndexCh(s, sep) ==
    IF \E i \in 1..Len(s) : Ch(s, i) = sep
    THEN CHOOSE i \in 1..Len(s) :
            /\ Ch(s, i) = sep
            /\ \A j \in 1..(i - 1) : Ch(s, j) # sep
    ELSE 0

\* strings.LastIndex(s, sep) for a one-character sep
LastIndexCh(s, sep) ==
    IF \E i \in 1..Len(s) : Ch(s, i) = sep
    THEN CHOOSE i \in 1..Len(s) :
            /\ Ch(s, i) = sep
            /\ \A j \in (i + 1)..Len(s) : Ch(s, j) # sep
    ELSE 0

\* strings.SplitN(line, "=", 2) on a line that holds an "="
SplitN2(line) ==
    LET i == IndexCh(line, "=")
    IN  <<SubSeq(line, 1, i - 1), SubSeq(line, i + 1, Len(line))>>

HasPrefix(s, prefix) ==
    /\ Len(s) >= Len(prefix)
    /\ SubSeq(s, 1, Len(prefix)) = prefix

\* strings.CutPrefix(s, prefix): <<after, found>>
CutPrefix(s, prefix) ==
    IF HasPrefix(s, prefix)
    THEN <<SubSeq(s, Len(prefix) + 1, Len(s)), TRUE>>
    ELSE <<s, FALSE>>

RECURSIVE ReplaceAll(_, _, _)
\* strings.ReplaceAll(s, old, new) for a one-character old
ReplaceAll(s, old, new) ==
    IF Len(s) = 0 THEN ""
    ELSE (IF Head(s) = old THEN new ELSE Head(s)) \o ReplaceAll(Tail(s), old, new)

RECURSIVE CanonicalFrom(_, _)
CanonicalFrom(s, upper) ==
    IF Len(s) = 0 THEN ""
    ELSE (IF upper THEN ToUpperCh(Head(s)) ELSE ToLowerCh(Head(s)))
            \o CanonicalFrom(Tail(s), Head(s) = "-")

\* textproto.CanonicalMIMEHeaderKey, which http.Header.Set/Add/Get apply to the key
CanonicalMIMEHeaderKey(s) == CanonicalFrom(s, TRUE)

RECURSIVE StripTrailingSlashes(_)
StripTrailingSlashes(p) ==
    IF Len(p) > 0 /\ Ch(p, Len(p)) = "/"
    THEN StripTrailingSlashes(SubSeq(p, 1, Len(p) - 1))
    ELSE p

\* path.Base(p)
Base(p) ==
    IF p = "" THEN "."
    ELSE LET q == StripTrailingSlashes(p)
             r == SubSeq(q, LastIndexCh(q, "/") + 1, Len(q))
         IN  IF r = "" THEN "/" ELSE r

----------------------------------------------------------------------------
(* The process environment. *)

\* os.Getenv(key): the value of the line whose key is key, "" when there is none
Getenv(env, key) ==
    IF \E i \in 1..Len(env) : SplitN2(env[i])[1] = key
    THEN SplitN2(env[CHOOSE i \in 1..Len(env) : SplitN2(env[i])[1] = key])[2]
    ELSE ""

\* os.Setenv(key, value): replaces the variable's line in place, or appends one
SetenvLines(env, key, value) ==
    IF \E i \in 1..Len(env) : SplitN2(env[i])[1] = key
    THEN [i \in 1..Len(env) |->
            IF SplitN2(env[i])[1] = key THEN key \o "=" \o value ELSE env[i]]
    ELSE Append(env, key \o "=" \o value)

\* the variables an operator sets on the server, and the values given to them
EnvSettings ==
    { <<"SEND_SERVER_HOSTNAME", "false">>,
      <<"SEND_HEADER_X_FOO", "bar">>,
      <<"SEND_HEADER_X_FOO", "a=b">> }

----------------------------------------------------------------------------
(* Requests. *)

TextMessage == 1
BinaryMessage == 2

NoHeaders == [k \in {} |-> <<>>]

\* http.Header.Get(key): the first value under the canonical key, "" when there is none
HeaderGet(h, key) ==
    LET k == CanonicalMIMEHeaderKey(key)
    IN  IF k \in DOMAIN h /\ Len(h[k]) > 0 THEN h[k][1] ELSE ""

\* http.Header.Set(key, value): replaces whatever the canonical key held
HeaderSet(h, key, value) ==
    LET k == CanonicalMIMEHeaderKey(key)
    IN  [n \in DOMAIN h \cup {k} |-> IF n = k THEN <<value>> ELSE h[n]]

\* http.Header.Add(key, value): appends to the values of the canonical key
HeaderAdd(h, key, value) ==
    LET k == CanonicalMIMEHeaderKey(key)
    IN  [n \in DOMAIN h \cup {k} |->
            IF n = k THEN (IF k \in DOMAIN h THEN Append(h[k], value) ELSE <<value>>)
            ELSE h[n]]

\* the handshake headers a client may send
UpgradeHeaderSets ==
    { NoHeaders,
      ("Connection" :> <<"Upgrade">>) @@ ("Upgrade" :> <<"WebSocket">>),
      ("Connection" :> <<"Upgrade">>) }

\* the X-Send-Server-Hostname header a client may send: absent, or present with a value
OverrideHeaderSets ==
    { NoHeaders }
    \cup { ("X-Send-Server-Hostname" :> <<v>>) : v \in {"", "false", "FALSE", "true"} }

Paths == { "/test", "/.ws", "/a/.sse", "/test.sse", "/.sse/" }

Bodies == { "", "a\nb" }

NewRequest(p, h, b) ==
    [method |-> "GET", path |-> p, proto |-> "HTTP/1.1", host |-> "localhost",
     header |-> h, body |-> b]

\* websocket.IsWebSocketUpgrade(r): Connection holds the token "upgrade" and Upgrade
\* the token "websocket", compared without case (header values are single tokens here)
IsWebSocketUpgrade(r) ==
    /\ "Connection" \in DOMAIN r.header
    /\ \E i \in 1..Len(r.header["Connection"]) : EqualFold(r.header["Connection"][i], "upgrade")
    /\ "Upgrade" \in DOMAIN r.header
    /\ \E i \in 1..Len(r.header["Upgrade"]) : EqualFold(r.header["Upgrade"][i], "websocket")

\* the requests clients send: a websocket handshake is a GET without a body
Requests ==
    { r \in { NewRequest(p, u @@ o, b) :
                p \in Paths, u \in UpgradeHeaderSets, o \in OverrideHeaderSets,
                b \in Bodies } :
        IsWebSocketUpgrade(r) => r.body = "" }

RECURSIVE AddLines(_, _)
AddLines(h, lines) ==
    IF lines = <<>> THEN h
    ELSE AddLines(HeaderAdd(h, Head(lines)[1], Head(lines)[2]), Tail(lines))

\* the req.Header the server hands to handler: the header lines of the request, added
\* to the map one by one in arrival order
HeaderOf(lines) == AddLines(NoHeaders, lines)

\* the *http.Request the server hands to handler for a request read from a connection
ReadRequest(w) ==
    [method |-> w.method, path |-> w.path, proto |-> w.proto, host |-> w.host,
     header |-> HeaderOf(w.lines), body |-> w.body]

RECURSIVE LinesOf(_, _)
LinesOf(h, keys) ==
    IF keys = {} THEN <<>>
    ELSE LET k == CHOOSE k \in keys : TRUE
         IN  [i \in 1..Len(h[k]) |-> <<k, h[k][i]>>] \o LinesOf(h, keys \ {k})

\* a client's request on the wire that the server reads as r
WireOf(r) ==
    [method |-> r.method, path |-> r.path, proto |-> r.proto, host |-> r.host,
     lines |-> LinesOf(r.header, DOMAIN r.header), body |-> r.body]

\* the requests clients send, as they are on the wire
Wires == { WireOf(r) : r \in Requests }

NoWire == [method |-> "", path |-> "", proto |-> "", host |-> "", lines |-> <<>>,
           body |-> ""]

----------------------------------------------------------------------------
(* handler: the hostname toggle, the environment headers, the dispatch. *)

\* a slip: the comparison with "false" made with ==
SendServerHostnameCaseSensitive(env, r) ==
    LET fromEnv == Getenv(env, "SEND_SERVER_HOSTNAME")
        v == HeaderGet(r.header, "X-Send-Server-Hostname")
        sendServerHostnameString == IF v # "" THEN v ELSE fromEnv
    IN  sendServerHostnameString # "false"

\* handler, lines 160-168
SendServerHostname(env, r) ==
    LET fromEnv == Getenv(env, "SEND_SERVER_HOSTNAME")
        v == HeaderGet(r.header, "X-Send-Server-Hostname")
        sendServerHostnameString == IF v # "" THEN v ELSE fromEnv
    IN  ~EqualFold(sendServerHostnameString, "false")

RECURSIVE EnvHeaders(_, _)
\* handler, lines 170-180: one wr.Header().Set per SEND_HEADER_ line, in os.Environ() order
EnvHeaders(env, h) ==
    IF env = <<>> THEN h
    ELSE LET parts == SplitN2(Head(env))
             cut == CutPrefix(parts[1], "SEND_HEADER_")
         IN  EnvHeaders(Tail(env),
                        IF cut[2]
                        THEN HeaderSet(h, ReplaceAll(cut[1], "_", "-"), parts[2])
                        ELSE h)

\* a slip: the path tests made before the upgrade test
RoutePathFirst(r) ==
    IF Base(r.path) = ".ws" THEN "frontend"
    ELSE IF Base(r.path) = ".sse" THEN "sse"
    ELSE IF IsWebSocketUpgrade(r) THEN "ws"
    ELSE "http"

\* handler, lines 182-190: which serve* function runs
Route(r) ==
    IF IsWebSocketUpgrade(r) THEN "ws"
    ELSE IF Base(r.path) = ".ws" THEN "frontend"
    ELSE IF Base(r.path) = ".sse" THEN "sse"
    ELSE "http"

NoResponse == [status |-> 0, header |-> NoHeaders, body |-> <<>>, flushed |-> 0]

NoRequest == [method |-> "", path |-> "", proto |-> "", host |-> "",
              header |-> NoHeaders, body |-> ""]

\* no Echo call is in flight
NoCall == [pc |-> "idle", ctx |-> "", request |-> <<>>, response |-> <<>>, err |-> ""]

\* main's locals once the environment is read, and where its two goroutines stand
Process(port, grpcPort, mainPc, grpcPc, bound) ==
    [port |-> port, grpcPort |-> grpcPort, main |-> mainPc, grpc |-> grpcPc,
     bound |-> bound, alive |-> TRUE, exit |-> ""]

\* the process with both listeners serving on the default ports
Serving == Process("8080", "9090", "serving", "serving", {"8080", "9090"})

\* NewPetStore(): the two sample pets, nextID 3, the mutex free
NewPetStore ==
    [mu |-> [w |-> "", r |-> {}],
     pets |-> (1 :> [id |-> 1, name |-> "Fluffy", tag |-> "cat"])
              @@ (2 :> [id |-> 2, name |-> "Rex", tag |-> "dog"]),
     nextID |-> 3]

\* the goroutines that may run a pet store handler at the same time
Callers == {"g1", "g2"}

\* a goroutine that runs no handler
NoHandler ==
    [op |-> "", pc |-> "", arg |-> "", pet |-> [id |-> 0, name |-> "", tag |-> ""],
     exists |-> FALSE, status |-> 0,
     out |-> [code |-> 0, message |-> "", pet |-> [id |-> 0, name |-> "", tag |-> ""],
              pets |-> {}]]

NoCalls == [c \in Callers |-> NoHandler]

\* the connections that may hold a session at the same time
Conns == {"A", "B"}

\* a connection without a session
NoSession ==
    [kind |-> "", pc |-> "", in |-> <<>>, out |-> <<>>,
     message |-> [type |-> 0, data |-> ""], id |-> 0, events |-> <<>>,
     ticker |-> "none", tickerC |-> <<>>, clock |-> 0, cancelled |-> FALSE]

NoSessions == [c \in Conns |-> NoSession]

Init ==
    /\ environ = <<"PORT=8080">>
    /\ pc = "idle"
    /\ req = NoRequest
    /\ route = ""
    /\ sendHostname = TRUE
    /\ wrHeader = NoHeaders
    /\ resp = NoResponse
    /\ hostname = "uncalled"
    /\ wsOpen = FALSE
    /\ wsIn = <<>>
    /\ wsOut = <<>>
    /\ wsMessage = [type |-> 0, data |-> ""]
    /\ sseId = 0
    /\ sseOut = <<>>
    /\ ticker = "none"
    /\ tickerC = <<>>
    /\ clock = 0
    /\ cancelled = FALSE
    /\ wire = NoWire
    /\ wsErr = "nil"
    /\ broken = FALSE
    /\ rpc = NoCall
    /\ proc = Serving
    /\ ps = NewPetStore
    /\ petCalls = NoCalls
    /\ sessions = NoSessions

\* os.Setenv on the server process, between two requests
Setenv ==
    /\ pc = "idle"
    /\ \E kv \in EnvSettings : environ' = SetenvLines(environ, kv[1], kv[2])
    /\ UNCHANGED <<pc, req, route, sendHostname, wrHeader, resp, hostname, wsOpen, wsIn,
                   wsOut, wsMessage, sseId, sseOut, ticker, tickerC, clock, cancelled,
                   wire, wsErr, broken, rpc, proc,
                   ps, petCalls, sessions>>

\* buf.ReadFrom(req.Body): <<the bytes read, the request with its body at the end>>
ReadFrom(r) == <<r.body, [r EXCEPT !.body = ""]>>

\* a slip: the body read for the log and not put back
LogBodyConsumed(env, r) ==
    IF Getenv(env, "LOG_HTTP_BODY") # "" THEN ReadFrom(r)[2] ELSE r

\* handler, lines 144-158: with LOG_HTTP_BODY set the body is read into a buffer and
\* req.Body is replaced by a reader over the buffered bytes
LogBody(env, r) ==
    IF Getenv(env, "LOG_HTTP_BODY") # ""
    THEN LET read == ReadFrom(r)
         IN  [read[2] EXCEPT !.body = read[1]]
    ELSE r

\* handler(wr, req) up to the call of the serve* function it chooses
handler(r) ==
    /\ pc = "idle"
    /\ req' = LogBody(environ, r)
    /\ sendHostname' = SendServerHostname(environ, r)
    /\ wrHeader' = EnvHeaders(environ, NoHeaders)
    /\ route' = Route(r)
    /\ pc' = Route(r)
    /\ UNCHANGED <<environ, resp, hostname, wsOpen, wsIn, wsOut, wsMessage, sseId,
                   sseOut, ticker, tickerC, clock, cancelled,
                   wsErr, broken, rpc, proc,
                   ps, petCalls, sessions>>

\* the HTTP server of main (line 100) reads a request from a connection and calls handler
accept(w) ==
    /\ wire' = w
    /\ handler(ReadRequest(w))

----------------------------------------------------------------------------
(* The Request Renderer: writeRequest and printHeaders. *)

\* the bytes header names are made of, in byte order
ByteOrder == "-0123456789ABCDEFGHIJKLMNOPQRSTUVWXYZabcdefghijklmnopqrstuvwxyz"

RECURSIVE StrLess(_, _)
\* s < t as Go compares strings: byte by byte, a proper prefix first
StrLess(s, t) ==
    IF t = "" THEN FALSE
    ELSE IF s = "" THEN TRUE
    ELSE IF Head(s) = Head(t) THEN StrLess(Tail(s), Tail(t))
    ELSE LetterIndex(ByteOrder, Head(s)) < LetterIndex(ByteOrder, Head(t))

RECURSIVE KeysAsRanged(_)
\* a slip: the keys left in the order the range over the map gave them
KeysAsRanged(keys) ==
    IF keys = {} THEN <<>>
    ELSE LET m == CHOOSE m \in keys : \A k \in keys \ {m} : StrLess(k, m)
         IN  <<m>> \o KeysAsRanged(keys \ {m})

RECURSIVE SortStrings(_)
\* sort.Strings over the keys of a map
SortStrings(keys) ==
    IF keys = {} THEN <<>>
    ELSE LET m == CHOOSE m \in keys : \A k \in keys \ {m} : StrLess(m, k)
         IN  <<m>> \o SortStrings(keys \ {m})

RECURSIVE ValueLines(_, _)
ValueLines(key, values) ==
    IF values = <<>> THEN ""
    ELSE key \o ": " \o Head(values) \o "\n" \o ValueLines(key, Tail(values))

RECURSIVE HeaderLines(_, _)
HeaderLines(sortedKeys, h) ==
    IF sortedKeys = <<>> THEN ""
    ELSE ValueLines(Head(sortedKeys), h[Head(sortedKeys)])
            \o HeaderLines(Tail(sortedKeys), h)

\* printHeaders(w, h): what it writes to w
printHeaders(h) == HeaderLines(SortStrings(DOMAIN h), h)

\* a slip: the blank line written whether or not there is a body
writeRequestAlwaysBlank(r) ==
    r.method \o " " \o r.path \o " " \o r.proto \o "\n"
    \o "\n"
    \o "Host: " \o r.host \o "\n"
    \o printHeaders(r.header)
    \o "\n" \o r.body

\* a slip: the blank line after the request line left out
writeRequestNoBlankLine(r) ==
    r.method \o " " \o r.path \o " " \o r.proto \o "\n"
    \o "Host: " \o r.host \o "\n"
    \o printHeaders(r.header)
    \o (IF Len(r.body) > 0 THEN "\n" \o r.body ELSE "")

\* writeRequest(w, req): what it writes to w (it reads req.Body to its end)
writeRequest(r) ==
    r.method \o " " \o r.path \o " " \o r.proto \o "\n"
    \o "\n"
    \o "Host: " \o r.host \o "\n"
    \o printHeaders(r.header)
    \o (IF Len(r.body) > 0 THEN "\n" \o r.body ELSE "")

\* the request once writeRequest has drained req.Body
BodyRead(r) == [r EXCEPT !.body = ""]

\* os.Hostname(): the host name, or an error
Hostnames == {"ok", "err"}
HostnameValue == "echo-1"
HostnameError == "sysctl kern.hostname: no such file"

----------------------------------------------------------------------------
(* serveHTTP and serveFrontend. *)

\* serveHTTP, lines 273-280: the prefix line
HTTPPrefix(send, h) ==
    IF ~send THEN <<>>
    ELSE IF h = "ok" THEN <<"Request served by " \o HostnameValue \o "\n\n">>
    ELSE <<"Server hostname unknown: " \o HostnameError \o "\n\n">>

\* a slip: Content-Type added after the body is written, as serveFrontend does
serveHTTPHeaderLate ==
    /\ pc = "http"
    /\ \E h \in Hostnames :
        /\ hostname' = IF sendHostname THEN h ELSE "uncalled"
        /\ wrHeader' = HeaderAdd(wrHeader, "Content-Type", "text/plain")
        /\ resp' = [status |-> 200,
                    header |-> HeaderSet(wrHeader, "Content-Type",
                                         "text/plain; charset=utf-8"),
                    body |-> HTTPPrefix(sendHostname, h) \o <<writeRequest(req)>>,
                    flushed |-> 0]
    /\ req' = BodyRead(req)
    /\ pc' = "done"
    /\ UNCHANGED <<environ, route, sendHostname, wsOpen, wsIn, wsOut, wsMessage, sseId,
                   sseOut, ticker, tickerC, clock, cancelled,
                   wire, wsErr, broken, rpc, proc,
                   ps, petCalls, sessions>>

\* serveHTTP, lines 269-283
serveHTTP ==
    /\ pc = "http"
    /\ \E h \in Hostnames :
        /\ hostname' = IF sendHostname THEN h ELSE "uncalled"
        /\ wrHeader' = HeaderAdd(wrHeader, "Content-Type", "text/plain")
        /\ resp' = [status |-> 200,
                    header |-> HeaderAdd(wrHeader, "Content-Type", "text/plain"),
                    body |-> HTTPPrefix(sendHostname, h) \o <<writeRequest(req)>>,
                    flushed |-> 0]
    /\ req' = BodyRead(req)
    /\ pc' = "done"
    /\ UNCHANGED <<environ, route, sendHostname, wsOpen, wsIn, wsOut, wsMessage, sseId,
                   sseOut, ticker, tickerC, clock, cancelled,
                   wire, wsErr, broken, rpc, proc,
                   ps, petCalls, sessions>>

\* The first Write sends status 200 with the header map as it stands; a map without
\* Content-Type gets the type sniffed from the page.
SniffedHeader(h) ==
    IF "Content-Type" \in DOMAIN h THEN h
    ELSE HeaderSet(h, "Content-Type", "text/html; charset=utf-8")

serveFrontend ==
    /\ pc = "frontend"
    /\ resp' = [status |-> 200, header |-> SniffedHeader(wrHeader),
                body |-> <<"html/frontend.tmpl.html">>, flushed |-> 0]
    /\ wrHeader' = HeaderAdd(wrHeader, "Content-Type", "text/html")
    /\ pc' = "done"
    /\ UNCHANGED <<environ, req, route, sendHostname, hostname, wsOpen, wsIn, wsOut,
                   wsMessage, sseId, sseOut, ticker, tickerC, clock, cancelled,
                   wire, wsErr, broken, rpc, proc,
                   ps, petCalls, sessions>>

----------------------------------------------------------------------------
(* serveWebSocket. *)

\* the text and binary frames a client sends
Frames == { [type |-> t, data |-> d] : t \in {TextMessage, BinaryMessage}, d \in {"", "hi"} }

\* upgrader.Upgrade(wr, req, responseHeader) on success: the connection is hijacked and
\* the 101 response carries the handshake headers and responseHeader, not wr.Header()
UpgradeResponse(responseHeader) ==
    [status |-> 101,
     header |-> HeaderSet(HeaderSet(HeaderSet(responseHeader,
                    "Upgrade", "websocket"), "Connection", "Upgrade"),
                    "Sec-WebSocket-Accept", "accept-key"),
     body |-> <<>>, flushed |-> 0]

\* upgrader.Upgrade on failure: http.Error through wr
UpgradeError(h) ==
    [status |-> 400,
     header |-> HeaderSet(HeaderSet(h, "Content-Type", "text/plain; charset=utf-8"),
                          "X-Content-Type-Options", "nosniff"),
     body |-> <<"Bad Request\n">>, flushed |-> 0]

\* serveWebSocket, lines 194-201
wsUpgrade ==
    /\ pc = "ws"
    /\ \E ok \in BOOLEAN :
        IF ok
        THEN /\ resp' = UpgradeResponse(NoHeaders)
             /\ wsErr' = "nil"
             /\ wsOpen' = TRUE
             /\ pc' = "ws_greet"
        ELSE /\ resp' = UpgradeError(wrHeader)
             /\ wsErr' = "upgrade"
             /\ wsOpen' = FALSE
             /\ pc' = "done"
    /\ UNCHANGED <<environ, req, route, sendHostname, wrHeader, hostname, wsIn, wsOut,
                   wsMessage, sseId, sseOut, ticker, tickerC, clock, cancelled,
                   wire, broken, rpc, proc,
                   ps, petCalls, sessions>>

\* a slip: the greeting left empty when os.Hostname fails
GreetingDroppedOnError(send, h) ==
    IF send /\ h = "ok" THEN "Request served by " \o HostnameValue ELSE ""

\* serveWebSocket, lines 203-212: the message written first
Greeting(send, h) ==
    IF ~send THEN ""
    ELSE IF h = "ok" THEN "Request served by " \o HostnameValue
    ELSE "Server hostname unknown: " \o HostnameError

\* a slip: the loop entered whatever the first WriteMessage returned
wsGreetIgnoringError ==
    /\ pc = "ws_greet"
    /\ \E h \in Hostnames, ok \in BOOLEAN :
        /\ hostname' = IF sendHostname THEN h ELSE "uncalled"
        /\ wsMessage' = [type |-> TextMessage, data |-> Greeting(sendHostname, h)]
        /\ wsOut' = IF ok THEN Append(wsOut, [type |-> TextMessage,
                                              data |-> Greeting(sendHostname, h)])
                   ELSE wsOut
        /\ wsErr' = IF ok THEN "nil" ELSE "write"
        /\ pc' = "ws_read"
        /\ wsOpen' = wsOpen
    /\ UNCHANGED <<environ, req, route, sendHostname, wrHeader, resp, wsIn, sseId,
                   sseOut, ticker, tickerC, clock, cancelled,
                   wire, broken, rpc, proc,
                   ps, petCalls, sessions>>

\* serveWebSocket, lines 203-215: the first WriteMessage, which may fail
wsGreet ==
    /\ pc = "ws_greet"
    /\ \E h \in Hostnames, ok \in BOOLEAN :
        /\ hostname' = IF sendHostname THEN h ELSE "uncalled"
        /\ wsMessage' = [type |-> TextMessage, data |-> Greeting(sendHostname, h)]
        /\ IF ok
           THEN /\ wsOut' = Append(wsOut, [type |-> TextMessage,
                                           data |-> Greeting(sendHostname, h)])
                /\ wsErr' = "nil"
                /\ pc' = "ws_read"
                /\ wsOpen' = wsOpen
           ELSE /\ wsOut' = wsOut
                /\ wsErr' = "write"
                /\ pc' = "done"
                /\ wsOpen' = FALSE
    /\ UNCHANGED <<environ, req, route, sendHostname, wrHeader, resp, wsIn, sseId,
                   sseOut, ticker, tickerC, clock, cancelled,
                   wire, broken, rpc, proc,
                   ps, petCalls, sessions>>

\* serveWebSocket, lines 219-222: ReadMessage returns the client's next frame
wsRead ==
    /\ pc = "ws_read"
    /\ Len(wsIn) < MaxFrames
    /\ \E f \in Frames :
        /\ wsIn' = Append(wsIn, f)
        /\ wsMessage' = f
    /\ pc' = "ws_write"
    /\ UNCHANGED <<environ, req, route, sendHostname, wrHeader, resp, hostname, wsOpen,
                   wsOut, sseId, sseOut, ticker, tickerC, clock, cancelled,
                   wire, wsErr, broken, rpc, proc,
                   ps, petCalls, sessions>>

\* serveWebSocket, lines 219-222 and 237-240: ReadMessage returns an error (the client
\* closed, the connection broke); the deferred Close runs
wsReadError ==
    /\ pc = "ws_read"
    /\ wsErr' = "read"
    /\ wsOpen' = FALSE
    /\ pc' = "done"
    /\ UNCHANGED <<environ, req, route, sendHostname, wrHeader, resp, hostname, wsIn,
                   wsOut, wsMessage, sseId, sseOut, ticker, tickerC, clock, cancelled,
                   wire, broken, rpc, proc,
                   ps, petCalls, sessions>>

\* a slip: the echo written with the greeting's frame type
EchoFrameAsText(messageType, message) == [type |-> TextMessage, data |-> message]

\* serveWebSocket, line 230: the frame WriteMessage(messageType, message) sends
EchoFrame(messageType, message) == [type |-> messageType, data |-> message]

\* a slip: the greeting written again in front of every echo
wsWriteGreetingAgain ==
    /\ pc = "ws_write"
    /\ \E ok \in BOOLEAN :
        IF ok
        THEN /\ wsOut' = wsOut \o <<[type |-> TextMessage,
                                     data |-> Greeting(sendHostname, hostname)],
                                    EchoFrame(wsMessage.type, wsMessage.data)>>
             /\ wsErr' = "nil"
             /\ pc' = "ws_read"
             /\ wsOpen' = wsOpen
        ELSE /\ wsOut' = wsOut
             /\ wsErr' = "write"
             /\ pc' = "done"
             /\ wsOpen' = FALSE
    /\ UNCHANGED <<environ, req, route, sendHostname, wrHeader, resp, hostname, wsIn,
                   wsMessage, sseId, sseOut, ticker, tickerC, clock, cancelled,
                   wire, broken, rpc, proc,
                   ps, petCalls, sessions>>

\* serveWebSocket, lines 230-233: the echo, which may fail
wsWrite ==
    /\ pc = "ws_write"
    /\ \E ok \in BOOLEAN :
        IF ok
        THEN /\ wsOut' = Append(wsOut, EchoFrame(wsMessage.type, wsMessage.data))
             /\ wsErr' = "nil"
             /\ pc' = "ws_read"
             /\ wsOpen' = wsOpen
        ELSE /\ wsOut' = wsOut
             /\ wsErr' = "write"
             /\ pc' = "done"
             /\ wsOpen' = FALSE
    /\ UNCHANGED <<environ, req, route, sendHostname, wrHeader, resp, hostname, wsIn,
                   wsMessage, sseId, sseOut, ticker, tickerC, clock, cancelled,
                   wire, broken, rpc, proc,
                   ps, petCalls, sessions>>

----------------------------------------------------------------------------
(* serveSSE, writeSSE, writeSSEField. *)

RECURSIVE Split(_, _)
\* strings.Split(v, sep) for a one-character sep
Split(v, sep) ==
    LET i == IndexCh(v, sep)
    IN  IF i = 0 THEN <<v>>
        ELSE <<SubSeq(v, 1, i - 1)>> \o Split(SubSeq(v, i + 1, Len(v)), sep)

Digits == "0123456789"

RECURSIVE Itoa(_)
\* strconv.Itoa(n), n >= 0
Itoa(n) ==
    IF n < 10 THEN Ch(Digits, n + 1)
    ELSE Itoa(n \div 10) \o Ch(Digits, (n % 10) + 1)

\* t.Format(time.RFC3339) for the instant t seconds after the ticker started (t < 60)
FormatRFC3339(t) ==
    "2006-01-02T15:04:" \o (IF t < 10 THEN "0" ELSE "") \o Itoa(t) \o "Z"

RECURSIVE FieldLines(_, _)
FieldLines(k, lines) ==
    IF lines = <<>> THEN ""
    ELSE k \o ": " \o Head(lines) \o "\n" \o FieldLines(k, Tail(lines))

\* a slip: the value written as one field, its line breaks left in
writeSSEFieldUnsplit(k, v) == k \o ": " \o v \o "\n"

\* writeSSEField(wr, req, k, v): one "k: line" per line of v
writeSSEField(k, v) == FieldLines(k, Split(v, "\n"))

\* writeSSE(wr, req, &id, event, data): the id after it
NextId(id) == id + 1

\* a slip: the id written before it is incremented
SSEEventPostIncrement(id, event, data) ==
    [event |-> event, data |-> Split(data, "\n"), id |-> id]

\* writeSSE: the event it writes, given the id before it
SSEEvent(id, event, data) ==
    [event |-> event, data |-> Split(data, "\n"), id |-> NextId(id)]

\* writeSSE: the bytes it writes before it flushes
SSEWire(id, event, data) ==
    writeSSEField("event", event)
    \o writeSSEField("data", data)
    \o writeSSEField("id", Itoa(NextId(id)))
    \o "\n"

\* a slip: the server event written whatever os.Hostname returned
ServerEventsUnchecked(send, h) ==
    IF send THEN <<[event |-> "server", data |-> HostnameValue]>> ELSE <<>>

\* serveSSE, lines 301-312: the events before the request event
ServerEvents(send, h) ==
    IF send /\ h = "ok" THEN <<[event |-> "server", data |-> HostnameValue]>> ELSE <<>>

RECURSIVE WriteAll(_, _, _)
\* successive writeSSE calls: <<events, wire chunks, id>> after them
WriteAll(calls, id, acc) ==
    IF calls = <<>> THEN <<acc[1], acc[2], id>>
    ELSE WriteAll(Tail(calls), NextId(id),
                  <<Append(acc[1], SSEEvent(id, Head(calls).event, Head(calls).data)),
                    Append(acc[2], SSEWire(id, Head(calls).event, Head(calls).data))>>)

\* serveSSE, lines 294-297
SSEHeaders(h) ==
    HeaderSet(HeaderSet(HeaderSet(HeaderSet(h,
        "Content-Type", "text/event-stream"),
        "Cache-Control", "no-cache"),
        "Connection", "keep-alive"),
        "Access-Control-Allow-Origin", "*")

\* http.Error(wr, text, code): the headers it sets on wr.Header() before it writes
ErrorHeaders(h) ==
    HeaderSet(HeaderSet(h, "Content-Type", "text/plain; charset=utf-8"),
              "X-Content-Type-Options", "nosniff")

\* a slip: the http.Flusher test made after the stream's headers are set and the ticker
\* is started
sseUnsupportedAfterStart ==
    /\ pc = "sse"
    /\ wrHeader' = ErrorHeaders(SSEHeaders(wrHeader))
    /\ resp' = [status |-> 500, header |-> ErrorHeaders(SSEHeaders(wrHeader)),
                body |-> <<"Streaming unsupported!\n">>, flushed |-> 0]
    /\ ticker' = "stopped"
    /\ pc' = "done"
    /\ UNCHANGED <<environ, req, route, sendHostname, hostname, wsOpen, wsIn,
                   wsOut, wsMessage, sseId, sseOut, tickerC, clock, cancelled,
                   wire, wsErr, broken, rpc, proc,
                   ps, petCalls, sessions>>

\* serveSSE, lines 286-289: the wr handed to serveSSE is no http.Flusher
sseUnsupported ==
    /\ pc = "sse"
    /\ wrHeader' = ErrorHeaders(wrHeader)
    /\ resp' = [status |-> 500, header |-> ErrorHeaders(wrHeader),
                body |-> <<"Streaming unsupported!\n">>, flushed |-> 0]
    /\ pc' = "done"
    /\ UNCHANGED <<environ, req, route, sendHostname, hostname, wsOpen, wsIn,
                   wsOut, wsMessage, sseId, sseOut, ticker, tickerC, clock, cancelled,
                   wire, wsErr, broken, rpc, proc,
                   ps, petCalls, sessions>>

\* serveSSE, lines 291-325: the request is rendered, the headers are set, the server and
\* request events are written and flushed, the ticker is started
sseStart ==
    /\ pc = "sse"
    /\ \E h \in Hostnames :
        LET calls == ServerEvents(sendHostname, h)
                        \o <<[event |-> "request", data |-> writeRequest(req)]>>
            out == WriteAll(calls, 0, <<<<>>, <<>>>>)
        IN  /\ hostname' = IF sendHostname THEN h ELSE "uncalled"
            /\ sseOut' = out[1]
            /\ sseId' = out[3]
            /\ resp' = [status |-> 200, header |-> SSEHeaders(wrHeader),
                        body |-> out[2], flushed |-> Len(out[2])]
    /\ wrHeader' = SSEHeaders(wrHeader)
    /\ req' = BodyRead(req)
    /\ ticker' = "running"
    /\ tickerC' = <<>>
    /\ clock' = 0
    /\ pc' = "sse_loop"
    /\ UNCHANGED <<environ, route, sendHostname, wsOpen, wsIn, wsOut, wsMessage,
                   cancelled,
                   wire, wsErr, broken, rpc, proc,
                   ps, petCalls, sessions>>

\* the runtime timer of time.NewTicker(1 * time.Second): a second passes; the tick is
\* dropped when one is still waiting in the channel
timerFire ==
    /\ ticker = "running"
    /\ clock < MaxTicks
    /\ clock' = clock + 1
    /\ tickerC' = IF tickerC = <<>> THEN <<clock + 1>> ELSE tickerC
    /\ UNCHANGED <<environ, pc, req, route, sendHostname, wrHeader, resp, hostname,
                   wsOpen, wsIn, wsOut, wsMessage, sseId, sseOut, ticker, cancelled,
                   wire, wsErr, broken, rpc, proc,
                   ps, petCalls, sessions>>

\* the client goes away or the request is cancelled: req.Context().Done() is closed
\* (serveSSE is the one place that reads the context)
contextCancel ==
    /\ pc \in {"sse", "sse_loop"}
    /\ ~cancelled
    /\ cancelled' = TRUE
    /\ UNCHANGED <<environ, pc, req, route, sendHostname, wrHeader, resp, hostname,
                   wsOpen, wsIn, wsOut, wsMessage, sseId, sseOut, ticker, tickerC, clock,
                   wire, wsErr, broken, rpc, proc,
                   ps, petCalls, sessions>>

\* the client connection is reset in mid-stream: from now on every write to wr fails
transportFail ==
    /\ pc = "sse_loop"
    /\ ~broken
    /\ broken' = TRUE
    /\ UNCHANGED <<environ, pc, req, route, sendHostname, wrHeader, resp, hostname,
                   wsOpen, wsIn, wsOut, wsMessage, sseId, sseOut, ticker, tickerC, clock,
                   cancelled, wire, wsErr, rpc, proc,
                   ps, petCalls, sessions>>

\* serveSSE, lines 331-338: the select takes the tick and writeSSE writes the time event;
\* writeSSE drops the errors of its writes, so on a broken connection the event is
\* written and the id is used, and nothing reaches the client
sseTick ==
    /\ pc = "sse_loop"
    /\ tickerC # <<>>
    /\ sseOut' = Append(sseOut, SSEEvent(sseId, "time", FormatRFC3339(Head(tickerC))))
    /\ resp' = IF broken THEN resp
               ELSE [resp EXCEPT
                  !.body = Append(@, SSEWire(sseId, "time", FormatRFC3339(Head(tickerC)))),
                  !.flushed = Len(resp.body) + 1]
    /\ sseId' = NextId(sseId)
    /\ tickerC' = <<>>
    /\ UNCHANGED <<environ, pc, req, route, sendHostname, wrHeader, hostname, wsOpen,
                   wsIn, wsOut, wsMessage, ticker, clock, cancelled,
                   wire, wsErr, broken, rpc, proc,
                   ps, petCalls, sessions>>

\* a slip: the return without the deferred ticker.Stop
sseReturnLeakingTicker ==
    /\ pc = "sse_loop"
    /\ cancelled
    /\ pc' = "done"
    /\ UNCHANGED <<environ, req, route, sendHostname, wrHeader, resp, hostname, wsOpen,
                   wsIn, wsOut, wsMessage, sseId, sseOut, ticker, tickerC, clock, cancelled,
                   wire, wsErr, broken, rpc, proc,
                   ps, petCalls, sessions>>

\* serveSSE, lines 325 and 329-330: the select takes Done, the deferred ticker.Stop runs
sseReturn ==
    /\ pc = "sse_loop"
    /\ cancelled
    /\ ticker' = "stopped"
    /\ pc' = "done"
    /\ UNCHANGED <<environ, req, route, sendHostname, wrHeader, resp, hostname, wsOpen,
                   wsIn, wsOut, wsMessage, sseId, sseOut, tickerC, clock, cancelled,
                   wire, wsErr, broken, rpc, proc,
                   ps, petCalls, sessions>>

----------------------------------------------------------------------------
(* The server: one request at a time on a connection. *)

\* handler has returned and the server is ready for the connection's next request
finishRequest ==
    /\ pc = "done"
    /\ pc' = "idle"
    /\ req' = NoRequest
    /\ route' = ""
    /\ sendHostname' = TRUE
    /\ wrHeader' = NoHeaders
    /\ resp' = NoResponse
    /\ hostname' = "uncalled"
    /\ wsOpen' = FALSE
    /\ wsIn' = <<>>
    /\ wsOut' = <<>>
    /\ wsMessage' = [type |-> 0, data |-> ""]
    /\ sseId' = 0
    /\ sseOut' = <<>>
    /\ ticker' = "none"
    /\ tickerC' = <<>>
    /\ clock' = 0
    /\ cancelled' = FALSE
    /\ wire' = NoWire
    /\ wsErr' = "nil"
    /\ broken' = FALSE
    /\ UNCHANGED <<environ, rpc, proc,
                   ps, petCalls, sessions>>

Next ==
    \/ Setenv
    \/ \E w \in Wires : accept(w)
    \/ serveHTTP
    \/ serveFrontend
    \/ wsUpgrade
    \/ wsGreet
    \/ wsRead
    \/ wsReadError
    \/ wsWrite
    \/ sseUnsupported
    \/ sseStart
    \/ timerFire
    \/ contextCancel
    \/ transportFail
    \/ sseTick
    \/ sseReturn
    \/ finishRequest

Spec == Init /\ [][Next]_vars

\* the handler goroutine runs on: a select whose Done case stays ready takes it in the
\* end (a ready case is chosen at random among the ready ones)
LiveSpec == Spec /\ WF_vars(sseReturn)

----------------------------------------------------------------------------
(* The dispatch of handler over every short path. *)

PathAlphabet == {"/", ".", "s", "e", "w"}

RECURSIVE StringsUpTo(_)
StringsUpTo(n) ==
    IF n = 0 THEN {""}
    ELSE LET shorter == StringsUpTo(n - 1)
         IN  shorter \cup { s \o c : s \in shorter, c \in PathAlphabet }

DispatchRequests ==
    { NewRequest(p, u, "") : p \in StringsUpTo(MaxPathLen), u \in UpgradeHeaderSets }

DispatchNext == pc = "idle" /\ \E r \in DispatchRequests : accept(WireOf(r))

DispatchSpec == Init /\ [][DispatchNext]_vars

----------------------------------------------------------------------------
(* The hostname toggle of handler over the settings of header and environment. *)

ToggleValues == {"", "false", "False", "FALSE", "fAlSe", "true", "TRUE", "fals", "falsee", "0"}

ToggleEnvirons ==
    { <<"PORT=8080">> }
    \cup { <<"PORT=8080", "SEND_SERVER_HOSTNAME=" \o v>> : v \in ToggleValues }

ToggleHeaderSets ==
    { NoHeaders }
    \cup { ("X-Send-Server-Hostname" :> <<v>>) : v \in ToggleValues }
    \cup { ("X-Send-Server-Hostname" :> <<"true", "false">>),
           ("X-Send-Server-Hostname" :> <<"", "true">>) }

ToggleRequests == { NewRequest("/test", h, "") : h \in ToggleHeaderSets }

ToggleInit ==
    /\ environ \in ToggleEnvirons
    /\ pc = "idle"
    /\ req = NoRequest
    /\ route = ""
    /\ sendHostname = TRUE
    /\ wrHeader = NoHeaders
    /\ resp = NoResponse
    /\ hostname = "uncalled"
    /\ wsOpen = FALSE
    /\ wsIn = <<>>
    /\ wsOut = <<>>
    /\ wsMessage = [type |-> 0, data |-> ""]
    /\ sseId = 0
    /\ sseOut = <<>>
    /\ ticker = "none"
    /\ tickerC = <<>>
    /\ clock = 0
    /\ cancelled = FALSE
    /\ wire = NoWire
    /\ wsErr = "nil"
    /\ broken = FALSE
    /\ rpc = NoCall
    /\ proc = Serving
    /\ ps = NewPetStore
    /\ petCalls = NoCalls
    /\ sessions = NoSessions

ToggleNext == pc = "idle" /\ \E r \in ToggleRequests : accept(WireOf(r))

ToggleSpec == ToggleInit /\ [][ToggleNext]_vars

----------------------------------------------------------------------------
(* The Request Renderer over requests whose header lines arrive in every order. *)

RenderNames == {"Accept", "X-B", "x-a"}
RenderValues == {"1", "2"}
RenderBodies == {"", "a\nb", "\n"}

RECURSIVE LinesUpTo(_)
\* the sequences of at most n header lines
LinesUpTo(n) ==
    IF n = 0 THEN {<<>>}
    ELSE LET shorter == LinesUpTo(n - 1)
         IN  shorter \cup { Append(l, <<k, v>>) :
                               l \in shorter, k \in RenderNames, v \in RenderValues }

RenderWires ==
    { [method |-> "GET", path |-> "/test", proto |-> "HTTP/1.1", host |-> "localhost",
       lines |-> l, body |-> b] : l \in LinesUpTo(MaxHeaders), b \in RenderBodies }

RenderEnvirons == { <<"PORT=8080">>, <<"PORT=8080", "LOG_HTTP_BODY=1">> }

RenderInit ==
    /\ environ \in RenderEnvirons
    /\ pc = "idle"
    /\ req = NoRequest
    /\ route = ""
    /\ sendHostname = TRUE
    /\ wrHeader = NoHeaders
    /\ resp = NoResponse
    /\ hostname = "uncalled"
    /\ wsOpen = FALSE
    /\ wsIn = <<>>
    /\ wsOut = <<>>
    /\ wsMessage = [type |-> 0, data |-> ""]
    /\ sseId = 0
    /\ sseOut = <<>>
    /\ ticker = "none"
    /\ tickerC = <<>>
    /\ clock = 0
    /\ cancelled = FALSE
    /\ wire = NoWire
    /\ wsErr = "nil"
    /\ broken = FALSE
    /\ rpc = NoCall
    /\ proc = Serving
    /\ ps = NewPetStore
    /\ petCalls = NoCalls
    /\ sessions = NoSessions

RenderNext ==
    \/ pc = "idle" /\ \E w \in RenderWires : accept(w)
    \/ serveHTTP
    \/ finishRequest

RenderSpec == RenderInit /\ [][RenderNext]_vars

----------------------------------------------------------------------------
(* The unary Echo call of the gRPC server. *)

\* a space, a newline, "a", and the two bytes of U+00E9
MessageBytes == {10, 32, 97, 195, 169}

RECURSIVE BytesUpTo(_)
BytesUpTo(n) ==
    IF n = 0 THEN {<<>>}
    ELSE LET shorter == BytesUpTo(n - 1)
         IN  shorter \cup { Append(m, b) : m \in shorter, b \in MessageBytes }

RECURSIVE ValidUTF8(_)
\* a proto3 string field holds well-formed UTF-8: the transport rejects anything else
\* before Echo is called
ValidUTF8(m) ==
    IF m = <<>> THEN TRUE
    ELSE IF Head(m) < 128 THEN ValidUTF8(Tail(m))
    ELSE /\ Head(m) \in 194..223
         /\ Len(m) >= 2
         /\ m[2] \in 128..191
         /\ ValidUTF8(Tail(Tail(m)))

Messages == { m \in BytesUpTo(MaxMessageLen) : ValidUTF8(m) }

\* req.GetMessage()
GetMessage(request) == request.message

\* a slip: the message echoed without its trailing newline
EchoTrimmed(ctx, request) ==
    LET m == GetMessage(request)
    IN  [response |-> [message |-> IF m # <<>> /\ m[Len(m)] = 10
                                   THEN SubSeq(m, 1, Len(m) - 1) ELSE m],
         err |-> "nil"]

\* grpcEchoServer.Echo(ctx, req): the response and the error it returns
Echo(ctx, request) ==
    [response |-> [message |-> GetMessage(request)], err |-> "nil"]

\* the gRPC server receives an Echo call; the client may have cancelled it already
rpcCall ==
    /\ rpc.pc = "idle"
    /\ \E m \in Messages, ctx \in {"live", "cancelled"} :
        rpc' = [pc |-> "called", ctx |-> ctx, request |-> [message |-> m],
                response |-> <<>>, err |-> ""]
    /\ UNCHANGED <<environ, pc, req, route, sendHostname, wrHeader, resp, hostname,
                   wsOpen, wsIn, wsOut, wsMessage, sseId, sseOut, ticker, tickerC, clock,
                   cancelled, wire, wsErr, broken, proc,
                   ps, petCalls, sessions>>

\* the server runs the handler
rpcEcho ==
    /\ rpc.pc = "called"
    /\ rpc' = [rpc EXCEPT !.pc = "returned",
                          !.response = Echo(rpc.ctx, rpc.request).response,
                          !.err = Echo(rpc.ctx, rpc.request).err]
    /\ UNCHANGED <<environ, pc, req, route, sendHostname, wrHeader, resp, hostname,
                   wsOpen, wsIn, wsOut, wsMessage, sseId, sseOut, ticker, tickerC, clock,
                   cancelled, wire, wsErr, broken, proc,
                   ps, petCalls, sessions>>

\* the response is sent and the call is over
rpcDone ==
    /\ rpc.pc = "returned"
    /\ rpc' = NoCall
    /\ UNCHANGED <<environ, pc, req, route, sendHostname, wrHeader, resp, hostname,
                   wsOpen, wsIn, wsOut, wsMessage, sseId, sseOut, ticker, tickerC, clock,
                   cancelled, wire, wsErr, broken, proc,
                   ps, petCalls, sessions>>

EchoNext == rpcCall \/ rpcEcho \/ rpcDone

EchoSpec == Init /\ [][EchoNext]_vars

----------------------------------------------------------------------------
(* main: the HTTP listener and the gRPC listener of one process. *)

DefaultPort == "8080"
DefaultGRPCPort == "9090"

\* the environments main starts in
MainEnvirons ==
    { p \o g : p \in { <<>>, <<"PORT=8080">>, <<"PORT=9090">> },
               g \in { <<>>, <<"GRPC_PORT=9090">>, <<"GRPC_PORT=8080">> } }

MainInit ==
    /\ environ \in MainEnvirons
    /\ pc = "idle"
    /\ req = NoRequest
    /\ route = ""
    /\ sendHostname = TRUE
    /\ wrHeader = NoHeaders
    /\ resp = NoResponse
    /\ hostname = "uncalled"
    /\ wsOpen = FALSE
    /\ wsIn = <<>>
    /\ wsOut = <<>>
    /\ wsMessage = [type |-> 0, data |-> ""]
    /\ sseId = 0
    /\ sseOut = <<>>
    /\ ticker = "none"
    /\ tickerC = <<>>
    /\ clock = 0
    /\ cancelled = FALSE
    /\ wire = NoWire
    /\ wsErr = "nil"
    /\ broken = FALSE
    /\ rpc = NoCall
    /\ proc = Process("", "", "start", "unstarted", {})
    /\ ps = NewPetStore
    /\ petCalls = NoCalls
    /\ sessions = NoSessions

\* every variable but proc
handlerVars == <<environ, pc, req, route, sendHostname, wrHeader, resp, hostname,
                 wsOpen, wsIn, wsOut, wsMessage, sseId, sseOut, ticker, tickerC, clock,
                 cancelled, wire, wsErr, broken, rpc, ps, petCalls, sessions>>

\* main, lines 77-85: the ports, from the environment or the defaults
mainPorts ==
    /\ proc.alive
    /\ proc.main = "start"
    /\ proc' = [proc EXCEPT
                  !.port = IF Getenv(environ, "PORT") = "" THEN DefaultPort
                           ELSE Getenv(environ, "PORT"),
                  !.grpcPort = IF Getenv(environ, "GRPC_PORT") = "" THEN DefaultGRPCPort
                               ELSE Getenv(environ, "GRPC_PORT"),
                  !.main = "go"]
    /\ UNCHANGED handlerVars

\* main, lines 93-97: the go statement starts the goroutine of the gRPC server
mainGo ==
    /\ proc.alive
    /\ proc.main = "go"
    /\ proc' = [proc EXCEPT !.main = "listen", !.grpc = "listen"]
    /\ UNCHANGED handlerVars

\* main, line 100: http.ListenAndServe binds the port and serves, or returns the error of
\* the bind (the port is held by the other listener or by another process)
mainListen ==
    /\ proc.alive
    /\ proc.main = "listen"
    /\ \E ok \in BOOLEAN :
        IF ok /\ proc.port \notin proc.bound
        THEN proc' = [proc EXCEPT !.main = "serving", !.bound = @ \cup {proc.port}]
        ELSE proc' = [proc EXCEPT !.main = "failed"]
    /\ UNCHANGED handlerVars

\* main, line 100: http.ListenAndServe returns the error that ended its accept loop
mainServeError ==
    /\ proc.alive
    /\ proc.main = "serving"
    /\ proc' = [proc EXCEPT !.main = "failed", !.bound = @ \ {proc.port}]
    /\ UNCHANGED handlerVars

\* main, lines 101-103: panic(err) in the main goroutine ends the process
mainPanic ==
    /\ proc.alive
    /\ proc.main = "failed"
    /\ proc' = [proc EXCEPT !.alive = FALSE, !.exit = "http", !.bound = {}]
    /\ UNCHANGED handlerVars

\* startGRPCServer, lines 63-66: net.Listen binds the port, or fails
grpcListen ==
    /\ proc.alive
    /\ proc.grpc = "listen"
    /\ \E ok \in BOOLEAN :
        IF ok /\ proc.grpcPort \notin proc.bound
        THEN proc' = [proc EXCEPT !.grpc = "serving", !.bound = @ \cup {proc.grpcPort}]
        ELSE proc' = [proc EXCEPT !.grpc = "failed"]
    /\ UNCHANGED handlerVars

\* startGRPCServer, lines 70-72: s.Serve returns the error that ended its accept loop
grpcServeError ==
    /\ proc.alive
    /\ proc.grpc = "serving"
    /\ proc' = [proc EXCEPT !.grpc = "failed", !.bound = @ \ {proc.grpcPort}]
    /\ UNCHANGED handlerVars

\* a slip: the error of startGRPCServer logged, and the goroutine left to end
grpcErrorLogged ==
    /\ proc.alive
    /\ proc.grpc = "failed"
    /\ proc' = [proc EXCEPT !.grpc = "ended"]
    /\ UNCHANGED handlerVars

\* main, lines 94-96: panic(err) in the goroutine ends the process
grpcPanic ==
    /\ proc.alive
    /\ proc.grpc = "failed"
    /\ proc' = [proc EXCEPT !.alive = FALSE, !.exit = "grpc", !.bound = {}]
    /\ UNCHANGED handlerVars

MainNext ==
    \/ mainPorts
    \/ mainGo
    \/ mainListen
    \/ mainServeError
    \/ mainPanic
    \/ grpcListen
    \/ grpcServeError
    \/ grpcPanic

MainSpec == MainInit /\ [][MainNext]_vars

\* a goroutine that can run does run: a panic that is due happens
MainLiveSpec == MainSpec /\ WF_vars(mainPanic) /\ WF_vars(grpcPanic)

----------------------------------------------------------------------------
(* Properties. *)

\* the frames the server wrote after the first one of the session
Echoes == IF wsOut = <<>> THEN <<>> ELSE Tail(wsOut)

\* C1: in a WebSocket session, after the session's first frame, the frames the server
\* writes are the frames it read, one for one, with the same type and payload and in
\* the same order; it never reads a second frame before the first is echoed, never
\* echoes a frame it has not read, and whenever it waits for a frame every frame read
\* has been echoed.
C1_EchoIdentity ==
    route = "ws" =>
        /\ Len(Echoes) <= Len(wsIn)
        /\ \A k \in 1..Len(Echoes) :
              /\ Echoes[k].type = wsIn[k].type
              /\ Echoes[k].data = wsIn[k].data
        /\ Len(wsIn) - Len(Echoes) <= 1
        /\ (pc = "ws_read" => Len(Echoes) = Len(wsIn))
        /\ (pc = "ws_write" => Len(wsIn) = Len(Echoes) + 1)

C1_Witness ==
    /\ route = "ws"
    /\ pc = "ws_read"
    /\ Len(wsIn) = 2
    /\ Len(wsOut) = 3
    /\ wsIn[1].type = BinaryMessage
    /\ wsIn[2].type = TextMessage
    /\ wsIn[1].data # wsIn[2].data

\* C2: when hostname disclosure is disabled for a WebSocket session the server sends no
\* initial frame: the first frame it writes is the echo of the first frame it read.
C2_NoInitialFrameWhenDisabled ==
    (route = "ws" /\ ~sendHostname /\ wsOut # <<>>) =>
        /\ wsIn # <<>>
        /\ wsOut[1] = wsIn[1]

\* C3: the ids of the events of an SSE session are 1, 2, 3, ... in the order written,
\* with or without a server event, and the id counter stands at the last id written;
\* each event's wire text ends with its id line and the blank line.
C3_IdsCountFromOne ==
    /\ sseId = Len(sseOut)
    /\ \A i \in 1..Len(sseOut) : sseOut[i].id = i
    /\ (route = "sse" /\ resp.status = 200) =>
             /\ Len(resp.body) <= Len(sseOut)
             /\ (~broken => Len(resp.body) = Len(sseOut))
             /\ \A i \in 1..Len(resp.body) :
                    LET tail == "id: " \o Ch("123456789", i) \o "\n\n"
                    IN  /\ Len(resp.body[i]) > Len(tail)
                        /\ SubSeq(resp.body[i], Len(resp.body[i]) - Len(tail) + 1,
                                  Len(resp.body[i])) = tail

C3_Witness ==
    /\ route = "sse"
    /\ Len(sseOut) = 4
    /\ sseOut[1].event = "request"
    /\ sseOut[4].id = 4

\* C4: once an SSE stream has started its events are: one server event exactly when
\* disclosure is enabled and os.Hostname succeeded, then one request event, then time
\* events only.
C4_EventOrder ==
    (route = "sse" /\ ticker # "none") =>
        LET first == IF sendHostname /\ hostname = "ok" THEN 2 ELSE 1
        IN  /\ Len(sseOut) >= first
            /\ (first = 2 => sseOut[1].event = "server")
            /\ sseOut[first].event = "request"
            /\ \A i \in 1..Len(sseOut) : i > first => sseOut[i].event = "time"

C4_Witness ==
    /\ route = "sse"
    /\ Len(sseOut) = 4
    /\ sseOut[1].event = "server"
    /\ sseOut[2].event = "request"
    /\ sseOut[4].event = "time"

\* C5: the loop of an SSE session ends only through the cancellation of the request
\* context: a session whose stream started has returned only if the context is
\* cancelled, and then its ticker is stopped; and once the context is cancelled the
\* session does return with the ticker stopped.
C5_EndsOnlyByCancellation ==
    /\ [](ticker = "stopped" => cancelled)
    /\ []((pc = "done" /\ ticker # "none") => (cancelled /\ ticker = "stopped"))
    /\ ((ticker = "running" /\ cancelled) ~> (pc = "done" /\ ticker = "stopped"))

C5_Witness ==
    /\ route = "sse"
    /\ pc = "done"
    /\ ticker = "stopped"
    /\ clock = MaxTicks
    /\ Len(sseOut) >= 3

\* the last non-empty segment of a path, "" when it has none
LastSegment(p) ==
    LET segs == Split(p, "/")
        full == { i \in 1..Len(segs) : segs[i] # "" }
    IN  IF full = {} THEN ""
        ELSE segs[CHOOSE i \in full : \A j \in full : j <= i]

\* the request carries the handshake headers of a WebSocket upgrade
CarriesHandshake(r) == {"Connection", "Upgrade"} \subseteq DOMAIN r.header

C7_NameDotSseIsStreamed ==
    (pc # "idle" /\ req.path = "/test.sse" /\ ~CarriesHandshake(req)) => route = "sse"

\* the word "false" in any mix of cases
IsFalseWord(s) ==
    /\ Len(s) = 5
    /\ Ch(s, 1) \in {"f", "F"}
    /\ Ch(s, 2) \in {"a", "A"}
    /\ Ch(s, 3) \in {"l", "L"}
    /\ Ch(s, 4) \in {"s", "S"}
    /\ Ch(s, 5) \in {"e", "E"}

\* the value of SEND_SERVER_HOSTNAME in the environment, "" when it is unset
EnvToggle ==
    LET key == "SEND_SERVER_HOSTNAME="
        at == { i \in 1..Len(environ) : HasPrefix(environ[i], key) }
    IN  IF at = {} THEN ""
        ELSE LET line == environ[CHOOSE i \in at : TRUE]
             IN  SubSeq(line, Len(key) + 1, Len(line))

OverrideName == "X-Send-Server-Hostname"

\* C8 as stated: the effective setting is the header X-Send-Server-Hostname whenever the
\* header is present, else the environment variable; disclosure is enabled unless the
\* effective setting is "false" in any case.
C8_PresentHeaderOverrides ==
    pc # "idle" =>
        sendHostname =
            ~IsFalseWord(IF OverrideName \in DOMAIN req.header
                         THEN req.header[OverrideName][1]
                         ELSE EnvToggle)

\* C8 amended: the effective setting is the first value of the header
\* X-Send-Server-Hostname when the header is present and that value is not empty, else
\* the environment variable; disclosure is enabled unless the effective setting is
\* "false" in any case.
C8_NonEmptyHeaderOverrides ==
    pc # "idle" =>
        sendHostname =
            ~IsFalseWord(IF OverrideName \in DOMAIN req.header
                            /\ req.header[OverrideName][1] # ""
                         THEN req.header[OverrideName][1]
                         ELSE EnvToggle)

C8_Witness ==
    /\ pc # "idle"
    /\ OverrideName \in DOMAIN req.header
    /\ req.header[OverrideName] = <<"FALSE">>
    /\ EnvToggle = "true"
    /\ ~sendHostname

\* C9: every response carries, for every SEND_HEADER_<NAME>=<value> of the environment,
\* the header <NAME with hyphens for underscores>: <value>, on every transport: plain
\* echo, UI page, SSE stream and the WebSocket handshake response.
C9_EnvHeadersOnEveryResponse ==
    (pc # "idle" /\ resp.status # 0) =>
        \A i \in 1..Len(environ) :
            HasPrefix(environ[i], "SEND_HEADER_") =>
                LET eq == IndexCh(environ[i], "=")
                    name == ReplaceAll(SubSeq(environ[i], Len("SEND_HEADER_") + 1, eq - 1),
                                       "_", "-")
                    value == SubSeq(environ[i], eq + 1, Len(environ[i]))
                IN  \E k \in DOMAIN resp.header :
                        /\ EqualFold(k, name)
                        /\ \E j \in 1..Len(resp.header[k]) : resp.header[k][j] = value

RECURSIVE Contains(_, _)
Contains(s, sub) ==
    IF Len(s) < Len(sub) THEN FALSE
    ELSE HasPrefix(s, sub) \/ Contains(Tail(s), sub)

\* a text that says the hostname lookup failed and gives the error
IsPlaceholder(s) ==
    /\ HasPrefix(s, "Server hostname unknown")
    /\ Contains(s, HostnameError)

\* the plain response and the WebSocket session carry the placeholder
PlaceholderOnPlainAndWebSocket ==
    /\ (route = "http" /\ pc = "done") =>
          /\ resp.status = 200
          /\ Len(resp.body) = 2
          /\ IsPlaceholder(resp.body[1])
    /\ (route = "ws" /\ wsOut # <<>>) =>
          /\ wsOut[1].type = TextMessage
          /\ IsPlaceholder(wsOut[1].data)

\* C10 as stated: when disclosure is enabled and os.Hostname fails the placeholder is
\* sent on every transport: the prefix line of the plain response, the first event of
\* the SSE stream, the first text frame of the WebSocket session.
C10_PlaceholderOnEveryTransport ==
    (sendHostname /\ hostname = "err") =>
        /\ PlaceholderOnPlainAndWebSocket
        /\ (route = "sse" /\ sseOut # <<>>) =>
              /\ sseOut[1].event = "server"
              /\ \E j \in 1..Len(sseOut[1].data) : IsPlaceholder(sseOut[1].data[j])

\* C10 amended: when disclosure is enabled and os.Hostname fails the placeholder is sent
\* as the prefix line of the plain response and as the first text frame of the WebSocket
\* session; the SSE stream carries no server event then and goes on with the request
\* event; the failure aborts no response.
C10_PlaceholderExceptOnSSE ==
    (sendHostname /\ hostname = "err") =>
        /\ PlaceholderOnPlainAndWebSocket
        /\ (route = "sse") =>
              /\ resp.status = 200
              /\ sseOut # <<>>
              /\ sseOut[1].event = "request"
              /\ \A i \in 1..Len(sseOut) : sseOut[i].event # "server"

C10_Witness ==
    /\ sendHostname
    /\ hostname = "err"
    /\ route = "ws"
    /\ pc = "ws_read"
    /\ Len(wsOut) = 2

\* the renderer's output up to the header block, for the request on the wire
RenderedHead(w) ==
    w.method \o " " \o w.path \o " " \o w.proto \o "\n\nHost: " \o w.host \o "\n"

\* the renderer's output after the header block
RenderedBodySection(w) == IF w.body # "" THEN "\n" \o w.body ELSE ""

HasSuffix(s, suffix) ==
    /\ Len(s) >= Len(suffix)
    /\ SubSeq(s, Len(s) - Len(suffix) + 1, Len(s)) = suffix

\* the lines of the header block of the rendered text out: what stands between the Host
\* line and the body section
HeaderBlock(out, w) ==
    LET block == SubSeq(out, Len(RenderedHead(w)) + 1,
                        Len(out) - Len(RenderedBodySection(w)))
        split == Split(block, "\n")
    IN  SubSeq(split, 1, Len(split) - 1)

LineName(l) == SubSeq(l, 1, IndexCh(l, ":") - 1)
LineValue(l) == SubSeq(l, IndexCh(l, ":") + 2, Len(l))

\* the values of the lines of a sequence of <<name, value>> whose name is n, in order
ValuesOf(pairs, n) ==
    LET Named(p) == EqualFold(p[1], n)
        kept == SelectSeq(pairs, Named)
    IN  [i \in 1..Len(kept) |-> kept[i][2]]

\* the header block of out is the arrived header lines, one "Name: value" line each,
\* names in lexicographic order, values of one name in arrival order
HeaderBlockSorted(out, w) ==
    LET lines == HeaderBlock(out, w)
        pairs == [i \in 1..Len(lines) |-> <<LineName(lines[i]), LineValue(lines[i])>>]
    IN  /\ Len(lines) = Len(w.lines)
        /\ \A i \in 1..Len(lines) :
              /\ IndexCh(lines[i], ":") > 0
              /\ Ch(lines[i], IndexCh(lines[i], ":") + 1) = " "
        /\ \A i \in 1..(Len(pairs) - 1) :
              \/ pairs[i][1] = pairs[i + 1][1]
              \/ StrLess(pairs[i][1], pairs[i + 1][1])
        /\ \A i \in 1..Len(w.lines) :
              /\ \E j \in 1..Len(pairs) : EqualFold(pairs[j][1], w.lines[i][1])
              /\ \A j \in 1..Len(pairs) :
                    EqualFold(pairs[j][1], w.lines[i][1]) =>
                        ValuesOf(pairs, pairs[j][1]) = ValuesOf(w.lines, pairs[j][1])

\* the text the Request Renderer wrote for the request in flight
Rendered == resp.body[Len(resp.body)]

\* C11: the header block of the rendered request (what follows the Host line) lists the
\* header names in lexicographic order, one line per value, the values of a repeated
\* header on consecutive lines in their arrival order; so it is the same text for every
\* arrival order that keeps the order of the values of each name.
C11_HeaderBlockSorted ==
    (route = "http" /\ pc = "done") =>
        /\ HasPrefix(Rendered, RenderedHead(wire))
        /\ HasSuffix(Rendered, RenderedBodySection(wire))
        /\ HeaderBlockSorted(Rendered, wire)

C11_Witness ==
    /\ route = "http"
    /\ pc = "done"
    /\ wire.lines = <<<<"X-B", "2">>, <<"Accept", "1">>, <<"X-B", "1">>>>
    /\ HeaderBlock(Rendered, wire) = <<"Accept: 1", "X-B: 2", "X-B: 1">>

RECURSIVE LinesLen(_)
\* the bytes the header lines take when each is written as "Name: value\n"
LinesLen(lines) ==
    IF lines = <<>> THEN 0
    ELSE Len(Head(lines)[1]) + 2 + Len(Head(lines)[2]) + 1 + LinesLen(Tail(lines))

\* out ends with one blank line and the bytes of the body when the body is not empty,
\* and with the last header line when it is
BodySectionExact(out, w) ==
    LET headLen == Len(RenderedHead(w)) + LinesLen(w.lines)
    IN  /\ Ch(out, headLen) = "\n"
        /\ Ch(out, headLen - 1) # "\n"
        /\ IF w.body # ""
           THEN /\ Len(out) = headLen + 1 + Len(w.body)
                /\ Ch(out, headLen + 1) = "\n"
                /\ SubSeq(out, headLen + 2, Len(out)) = w.body
           ELSE Len(out) = headLen

C13_BodyReadableAfterRender ==
    (route = "http" /\ pc = "done") =>
        /\ req.body = wire.body
        /\ writeRequest(req) = Rendered

\* a hostname-prefix line followed by a blank line
IsPrefixLine(chunk) ==
    /\ HasSuffix(chunk, "\n\n")
    /\ IndexCh(chunk, "\n") = Len(chunk) - 1
    /\ \/ chunk = "Request served by " \o HostnameValue \o "\n\n"
       \/ IsPlaceholder(chunk)

\* C14: a request dispatched to the plain echo gets status 200 and Content-Type
\* text/plain, both fixed before the first body byte; its body is the hostname-prefix
\* line and a blank line exactly when disclosure is enabled for the request, and then
\* the Request Renderer's output for the request.
C14_PlainEcho ==
    (route = "http" /\ pc = "done") =>
        /\ resp.status = 200
        /\ "Content-Type" \in DOMAIN resp.header
        /\ \E i \in 1..Len(resp.header["Content-Type"]) :
              resp.header["Content-Type"][i] = "text/plain"
        /\ Len(resp.body) = (IF sendHostname THEN 2 ELSE 1)
        /\ (sendHostname => IsPrefixLine(resp.body[1]))
        /\ HasPrefix(Rendered, RenderedHead(wire))
        /\ HeaderBlockSorted(Rendered, wire)
        /\ BodySectionExact(Rendered, wire)

C14_Witness ==
    /\ route = "http"
    /\ pc = "done"
    /\ ~sendHostname
    /\ Getenv(environ, "SEND_HEADER_X_FOO") = "bar"
    /\ wire.body # ""
    /\ Len(wire.lines) > 0
    /\ Len(resp.body) = 1

RECURSIVE Concat(_)
\* the chunks of a body as the one text the client reads
Concat(chunks) == IF chunks = <<>> THEN "" ELSE Head(chunks) \o Concat(Tail(chunks))

\* the plain echo has answered a GET of /test
AnsweredGetTest ==
    /\ route = "http"
    /\ pc = "done"
    /\ wire.method = "GET"
    /\ wire.path = "/test"

\* C15 as stated: for a plain GET /test the response has status 200 and its body begins
\* with the request line GET /test <protocol>, followed by a blank line and then the
\* sorted headers.
C15_BodyBeginsWithRequestLine ==
    AnsweredGetTest =>
        /\ resp.status = 200
        /\ HasPrefix(Concat(resp.body), "GET /test " \o wire.proto \o "\n\nHost: ")
        /\ HeaderBlockSorted(Concat(resp.body), wire)

\* C15 amended: for a plain GET /test the response has status 200 and its body holds the
\* request line GET /test <protocol>, followed by a blank line and then the sorted
\* headers; the request line begins the body when hostname disclosure is disabled for
\* the request, and follows the hostname-prefix line and its blank line when it is
\* enabled.
C15_RequestLineAfterPrefix ==
    AnsweredGetTest =>
        /\ resp.status = 200
        /\ \E prefix \in {""} \cup {resp.body[i] : i \in 1..Len(resp.body)} :
              /\ prefix = "" <=> ~sendHostname
              /\ prefix # "" => IsPrefixLine(prefix)
              /\ LET text == SubSeq(Concat(resp.body), Len(prefix) + 1,
                                     Len(Concat(resp.body)))
                 IN  /\ Concat(resp.body) = prefix \o text
                     /\ HasPrefix(text, "GET /test " \o wire.proto \o "\n\nHost: ")
                     /\ HeaderBlockSorted(text, wire)

C15_Witness ==
    /\ AnsweredGetTest
    /\ sendHostname
    /\ hostname = "ok"
    /\ HasPrefix(Concat(resp.body),
                 "Request served by " \o HostnameValue \o "\n\nGET /test HTTP/1.1\n\nHost: ")

\* C16: the unary Echo call returns, for every request string, the empty one and those
\* with multi-byte characters included, a response whose message is that string byte for
\* byte, and a nil error, whether or not the call's context is cancelled.
C16_EchoReturnsMessage ==
    rpc.pc = "returned" =>
        /\ rpc.response.message = rpc.request.message
        /\ rpc.err = "nil"

C16_Witness ==
    /\ rpc.pc = "returned"
    /\ rpc.ctx = "cancelled"
    /\ rpc.request.message = <<195, 169, 10>>
    /\ rpc.response.message = <<195, 169, 10>>

\* the headers that open an event stream
StreamHeaderNames == {"Cache-Control", "Connection", "Access-Control-Allow-Origin"}

HasStreamHeaders(h) ==
    \/ StreamHeaderNames \cap DOMAIN h # {}
    \/ /\ "Content-Type" \in DOMAIN h
       /\ \E i \in 1..Len(h["Content-Type"]) : h["Content-Type"][i] = "text/event-stream"

\* C17: when the response writer of an SSE request cannot flush, the client gets a 500
\* and the session returns before any stream state exists: no event-stream header is
\* set, the request is not rendered, no event is written, no id is used, no ticker is
\* started.  A stream is never half-started: a session that set a stream header, wrote
\* an event or started a ticker answered 200 and did all three.
C17_FailFast ==
    /\ (route = "sse" /\ resp.status = 500) =>
          /\ pc = "done"
          /\ resp.body = <<"Streaming unsupported!\n">>
          /\ ~HasStreamHeaders(resp.header)
          /\ ~HasStreamHeaders(wrHeader)
          /\ req.body = wire.body
          /\ sseOut = <<>>
          /\ sseId = 0
          /\ ticker = "none"
          /\ tickerC = <<>>
    /\ (route = "sse" /\ (HasStreamHeaders(wrHeader) \/ sseOut # <<>> \/ ticker # "none")) =>
          /\ resp.status = 200
          /\ HasStreamHeaders(resp.header)
          /\ sseOut # <<>>
          /\ ticker # "none"

C17_Witness ==
    /\ route = "sse"
    /\ pc = "done"
    /\ resp.status = 500
    /\ wire.body # ""
    /\ Getenv(environ, "SEND_HEADER_X_FOO") # ""

\* C18: a WebSocket session ends on the first error of a read (a normal closure is one)
\* or of a write (of the greeting or of an echo): once the error is returned the session
\* is over and the connection is closed, on every exit path, the failed greeting
\* included; after the error the server reads no frame from the connection and writes
\* none to it.
C18_SessionEndsOnFirstError ==
    /\ []((route = "ws" /\ wsErr # "nil") => (pc = "done" /\ ~wsOpen))
    /\ []((route = "ws" /\ pc = "done") => (wsErr # "nil" /\ ~wsOpen))
    /\ []((route = "ws" /\ wsOpen) => pc \in {"ws_greet", "ws_read", "ws_write"})
    /\ [][(route = "ws" /\ wsErr # "nil") =>
             \/ wsIn' = wsIn /\ wsOut' = wsOut /\ wsOpen' = wsOpen
             \/ pc' = "idle"]_vars

C18_Witness ==
    /\ route = "ws"
    /\ pc = "done"
    /\ wsErr = "write"
    /\ wsOut = <<>>
    /\ ~wsOpen
    /\ resp.status = 101

\* the event writes of the SSE session that failed: events written by writeSSE that did
\* not reach the client
FailedWrites == Len(sseOut) - Len(resp.body)

\* C19: a failed write of an SSE event ends the session at once: after it the session
\* writes no further event and has returned, without any other signal.
C19_WriteFailureEndsSession ==
    (route = "sse" /\ resp.status = 200 /\ FailedWrites > 0) =>
        /\ FailedWrites = 1
        /\ pc = "done"

\* a goroutine that has been started and has not failed
Running(g) == g \in {"listen", "serving"}

\* C20: the HTTP listener and the gRPC listener run as two concurrent tasks, and the
\* failure of either (its bind fails, its serve call returns an error) ends the whole
\* process: the failure is never passed over, the process does not go on after it with
\* the other listener serving, and after the exit no listener is left.
C20_ListenerFailureEndsProcess ==
    /\ []((proc.alive /\ Running(proc.main)) => proc.grpc # "unstarted")
    /\ [][/\ (proc.main = "failed" => proc'.main = "failed")
          /\ (proc.grpc = "failed" => proc'.grpc = "failed")
          /\ (~proc.alive => proc' = proc)]_vars
    /\ [](~proc.alive =>
             /\ proc.bound = {}
             /\ \/ proc.exit = "http" /\ proc.main = "failed"
                \/ proc.exit = "grpc" /\ proc.grpc = "failed")
    /\ ((proc.main = "failed" \/ proc.grpc = "failed") ~> ~proc.alive)

C20_Witness ==
    /\ ~proc.alive
    /\ proc.exit = "grpc"
    /\ proc.main = "serving"
    /\ proc.port = proc.grpcPort

(***************************************************************************)
(* The pet store of openapi/petstore.go.  Each handler runs in the         *)
(* goroutine of its request; a step of a handler is one statement that     *)
(* touches the store or its mutex.                                         *)
(***************************************************************************)

\* the zero value of Pet
ZeroPet == [id |-> 0, name |-> "", tag |-> ""]

\* a response with nothing written
NoEntity == [code |-> 0, message |-> "", pet |-> ZeroPet, pets |-> {}]

\* request bodies of POST /v1/pets
CreateBodies ==
    {"{", "{\"tag\":\"dog\"}", "{\"name\":\"Bo\",\"tag\":\"dog\"}", "{\"id\":1,\"name\":\"Al\"}"}

\* json.NewDecoder(r.Body).Decode(&pet) on those bodies
Decode(body) ==
    CASE body = "{\"tag\":\"dog\"}" ->
            [err |-> FALSE, pet |-> [id |-> 0, name |-> "", tag |-> "dog"]]
      [] body = "{\"name\":\"Bo\",\"tag\":\"dog\"}" ->
            [err |-> FALSE, pet |-> [id |-> 0, name |-> "Bo", tag |-> "dog"]]
      [] body = "{\"id\":1,\"name\":\"Al\"}" ->
            [err |-> FALSE, pet |-> [id |-> 1, name |-> "Al", tag |-> ""]]
      [] OTHER -> [err |-> TRUE, pet |-> ZeroPet]

\* the petId path variables of GET /v1/pets/{petId}
PetIds == {"1", "3", "4", "x"}

\* the limit query parameters of GET /v1/pets
Limits == {"", "1", "x"}

RECURSIVE ParseDigits(_, _)
\* the decimal value of a string of digits, -1 when a character is no digit
ParseDigits(s, acc) ==
    IF s = "" THEN acc
    ELSE LET d == IndexCh(Digits, Ch(s, 1))
         IN  IF d = 0 THEN -1 ELSE ParseDigits(SubSeq(s, 2, Len(s)), acc * 10 + (d - 1))

\* strconv.ParseInt(s, 10, 64) on unsigned decimal strings
ParseInt(s) ==
    IF s = "" \/ ParseDigits(s, 0) < 0 THEN [err |-> TRUE, n |-> 0]
    ELSE [err |-> FALSE, n |-> ParseDigits(s, 0)]

\* the limit of ListPets: 100 unless the parameter parses to 1..100
ListLimit(limitStr) ==
    IF limitStr # "" /\ ~ParseInt(limitStr).err /\ ParseInt(limitStr).n > 0
    THEN IF ParseInt(limitStr).n > 100 THEN 100 ELSE ParseInt(limitStr).n
    ELSE 100

\* sendError: the status and the Error entity
sendError(code, message) ==
    [status |-> code, out |-> [NoEntity EXCEPT !.code = code, !.message = message]]

\* a writer that takes the mutex without waiting for its holders
CanLockUnguarded(mu) == TRUE

\* ps.mu.Lock() returns once there is no writer and no reader
CanLock(mu) == mu.w = "" /\ mu.r = {}

\* ps.mu.RLock() returns once there is no writer
CanRLock(mu) == mu.w = ""

\* an id taken from the request body when it carries one
AssignIDFromBody(nextID, pet) == IF pet.id # 0 THEN pet.id ELSE nextID

\* pet.ID = ps.nextID
AssignID(nextID, pet) == nextID

\* ps.pets[id] = &pet
StorePet(pets, pet) ==
    [k \in DOMAIN pets \cup {pet.id} |-> IF k = pet.id THEN pet ELSE pets[k]]

petVars ==
    <<environ, pc, req, route, sendHostname, wrHeader, resp, hostname, wsOpen, wsIn,
      wsOut, wsMessage, sseId, sseOut, ticker, tickerC, clock, cancelled, wire, wsErr,
      broken, rpc, proc, sessions>>

\* the creates that have not yet taken their id
PendingCreates ==
    {c \in Callers : petCalls[c].op = "CreatePets" /\ petCalls[c].pc \in {"Decode", "Lock", "id", "nextID"}}

\* the router hands POST /v1/pets to CreatePets
callCreatePets(c, body) ==
    /\ petCalls[c] = NoHandler
    /\ ps.nextID + Cardinality(PendingCreates) < 3 + MaxCreated
    /\ petCalls' = [petCalls EXCEPT ![c] =
                       [NoHandler EXCEPT !.op = "CreatePets", !.pc = "Decode", !.arg = body]]
    /\ UNCHANGED <<ps, petVars>>

\* CreatePets that takes an id before it validates the body
createDecodeAllocating(c) ==
    /\ petCalls[c].op = "CreatePets" /\ petCalls[c].pc = "Decode"
    /\ LET d == Decode(petCalls[c].arg)
           e == IF d.err THEN sendError(400, "Invalid request body")
                ELSE sendError(400, "Pet name is required")
       IN  /\ ps' = [ps EXCEPT !.nextID = @ + 1]
           /\ IF d.err \/ d.pet.name = ""
              THEN petCalls' = [petCalls EXCEPT ![c].pc = "done", ![c].status = e.status,
                                                ![c].out = e.out]
              ELSE petCalls' = [petCalls EXCEPT ![c].pc = "Lock", ![c].pet = d.pet]
    /\ UNCHANGED petVars

\* CreatePets: decode the body, reject an undecodable one and one without a name
createDecode(c) ==
    /\ petCalls[c].op = "CreatePets" /\ petCalls[c].pc = "Decode"
    /\ LET d == Decode(petCalls[c].arg)
           e == IF d.err THEN sendError(400, "Invalid request body")
                ELSE sendError(400, "Pet name is required")
       IN  IF d.err \/ d.pet.name = ""
           THEN petCalls' = [petCalls EXCEPT ![c].pc = "done", ![c].status = e.status,
                                             ![c].out = e.out]
           ELSE petCalls' = [petCalls EXCEPT ![c].pc = "Lock", ![c].pet = d.pet]
    /\ UNCHANGED <<ps, petVars>>

\* ps.mu.Lock()
createLock(c) ==
    /\ petCalls[c].op = "CreatePets" /\ petCalls[c].pc = "Lock"
    /\ CanLock(ps.mu)
    /\ ps' = [ps EXCEPT !.mu.w = c]
    /\ petCalls' = [petCalls EXCEPT ![c].pc = "id"]
    /\ UNCHANGED petVars

\* pet.ID = ps.nextID
createAssign(c) ==
    /\ petCalls[c].op = "CreatePets" /\ petCalls[c].pc = "id"
    /\ petCalls' = [petCalls EXCEPT ![c].pc = "nextID",
                                    ![c].pet.id = AssignID(ps.nextID, petCalls[c].pet)]
    /\ UNCHANGED <<ps, petVars>>

\* ps.nextID++
createIncrement(c) ==
    /\ petCalls[c].op = "CreatePets" /\ petCalls[c].pc = "nextID"
    /\ ps' = [ps EXCEPT !.nextID = @ + 1]
    /\ petCalls' = [petCalls EXCEPT ![c].pc = "store"]
    /\ UNCHANGED petVars

\* ps.pets[pet.ID] = &pet
createStore(c) ==
    /\ petCalls[c].op = "CreatePets" /\ petCalls[c].pc = "store"
    /\ ps' = [ps EXCEPT !.pets = StorePet(@, petCalls[c].pet)]
    /\ petCalls' = [petCalls EXCEPT ![c].pc = "Unlock"]
    /\ UNCHANGED petVars

\* ps.mu.Unlock()
createUnlock(c) ==
    /\ petCalls[c].op = "CreatePets" /\ petCalls[c].pc = "Unlock"
    /\ ps' = [ps EXCEPT !.mu.w = ""]
    /\ petCalls' = [petCalls EXCEPT ![c].pc = "Encode"]
    /\ UNCHANGED petVars

\* w.WriteHeader(http.StatusCreated); Encode(pet)
createRespond(c) ==
    /\ petCalls[c].op = "CreatePets" /\ petCalls[c].pc = "Encode"
    /\ petCalls' = [petCalls EXCEPT ![c].pc = "done", ![c].status = 201,
                                    ![c].out = [NoEntity EXCEPT !.pet = petCalls[c].pet]]
    /\ UNCHANGED <<ps, petVars>>

\* the router hands GET /v1/pets to ListPets
callListPets(c, limitStr) ==
    /\ petCalls[c] = NoHandler
    /\ petCalls' = [petCalls EXCEPT ![c] =
                       [NoHandler EXCEPT !.op = "ListPets", !.pc = "RLock", !.arg = limitStr]]
    /\ UNCHANGED <<ps, petVars>>

\* ps.mu.RLock()
listRLock(c) ==
    /\ petCalls[c].op = "ListPets" /\ petCalls[c].pc = "RLock"
    /\ CanRLock(ps.mu)
    /\ ps' = [ps EXCEPT !.mu.r = @ \cup {c}]
    /\ petCalls' = [petCalls EXCEPT ![c].pc = "range"]
    /\ UNCHANGED petVars

\* range over ps.pets in the map's order until limit pets are taken, then
\* WriteHeader(200) and Encode(pets), all under the read lock
listRange(c) ==
    /\ petCalls[c].op = "ListPets" /\ petCalls[c].pc = "range"
    /\ LET limit == ListLimit(petCalls[c].arg)
           n == Cardinality(DOMAIN ps.pets)
       IN  \E S \in SUBSET DOMAIN ps.pets :
              /\ Cardinality(S) = IF limit < n THEN limit ELSE n
              /\ petCalls' = [petCalls EXCEPT ![c].pc = "RUnlock", ![c].status = 200,
                                 ![c].out = [NoEntity EXCEPT !.pets = {ps.pets[k] : k \in S}]]
    /\ UNCHANGED <<ps, petVars>>

\* the deferred ps.mu.RUnlock()
listRUnlock(c) ==
    /\ petCalls[c].op = "ListPets" /\ petCalls[c].pc = "RUnlock"
    /\ ps' = [ps EXCEPT !.mu.r = @ \ {c}]
    /\ petCalls' = [petCalls EXCEPT ![c].pc = "done"]
    /\ UNCHANGED petVars

\* the router hands GET /v1/pets/{petId} to ShowPetById
callShowPetById(c, petId) ==
    /\ petCalls[c] = NoHandler
    /\ petCalls' = [petCalls EXCEPT ![c] =
                       [NoHandler EXCEPT !.op = "ShowPetById", !.pc = "ParseInt", !.arg = petId]]
    /\ UNCHANGED <<ps, petVars>>

\* strconv.ParseInt(vars["petId"], 10, 64), 400 when it fails
showParse(c) ==
    /\ petCalls[c].op = "ShowPetById" /\ petCalls[c].pc = "ParseInt"
    /\ LET e == sendError(400, "Invalid pet ID")
       IN  IF ParseInt(petCalls[c].arg).err
           THEN petCalls' = [petCalls EXCEPT ![c].pc = "done", ![c].status = e.status,
                                             ![c].out = e.out]
           ELSE petCalls' = [petCalls EXCEPT ![c].pc = "RLock"]
    /\ UNCHANGED <<ps, petVars>>

\* ps.mu.RLock()
showRLock(c) ==
    /\ petCalls[c].op = "ShowPetById" /\ petCalls[c].pc = "RLock"
    /\ CanRLock(ps.mu)
    /\ ps' = [ps EXCEPT !.mu.r = @ \cup {c}]
    /\ petCalls' = [petCalls EXCEPT ![c].pc = "get"]
    /\ UNCHANGED petVars

\* pet, exists := ps.pets[petID]
showGet(c) ==
    /\ petCalls[c].op = "ShowPetById" /\ petCalls[c].pc = "get"
    /\ LET petID == ParseInt(petCalls[c].arg).n
       IN  petCalls' = [petCalls EXCEPT
              ![c].pc = "RUnlock",
              ![c].exists = petID \in DOMAIN ps.pets,
              ![c].pet = IF petID \in DOMAIN ps.pets THEN ps.pets[petID] ELSE ZeroPet]
    /\ UNCHANGED <<ps, petVars>>

\* ps.mu.RUnlock()
showRUnlock(c) ==
    /\ petCalls[c].op = "ShowPetById" /\ petCalls[c].pc = "RUnlock"
    /\ ps' = [ps EXCEPT !.mu.r = @ \ {c}]
    /\ petCalls' = [petCalls EXCEPT ![c].pc = "Encode"]
    /\ UNCHANGED petVars

\* 404 when the pet does not exist, otherwise WriteHeader(200) and Encode(pet)
showRespond(c) ==
    /\ petCalls[c].op = "ShowPetById" /\ petCalls[c].pc = "Encode"
    /\ LET e == sendError(404, "Pet not found")
       IN  IF ~petCalls[c].exists
           THEN petCalls' = [petCalls EXCEPT ![c].pc = "done", ![c].status = e.status,
                                             ![c].out = e.out]
           ELSE petCalls' = [petCalls EXCEPT ![c].pc = "done", ![c].status = 200,
                                ![c].out = [NoEntity EXCEPT !.pet = petCalls[c].pet]]
    /\ UNCHANGED <<ps, petVars>>

\* the handler returns and its goroutine ends
handlerReturn(c) ==
    /\ petCalls[c].pc = "done"
    /\ petCalls' = [petCalls EXCEPT ![c] = NoHandler]
    /\ UNCHANGED <<ps, petVars>>

PetNext ==
    \/ \E c \in Callers, body \in CreateBodies : callCreatePets(c, body)
    \/ \E c \in Callers : createDecode(c)
    \/ \E c \in Callers : createLock(c)
    \/ \E c \in Callers : createAssign(c)
    \/ \E c \in Callers : createIncrement(c)
    \/ \E c \in Callers : createStore(c)
    \/ \E c \in Callers : createUnlock(c)
    \/ \E c \in Callers : createRespond(c)
    \/ \E c \in Callers, limitStr \in Limits : callListPets(c, limitStr)
    \/ \E c \in Callers : listRLock(c)
    \/ \E c \in Callers : listRange(c)
    \/ \E c \in Callers : listRUnlock(c)
    \/ \E c \in Callers, petId \in PetIds : callShowPetById(c, petId)
    \/ \E c \in Callers : showParse(c)
    \/ \E c \in Callers : showRLock(c)
    \/ \E c \in Callers : showGet(c)
    \/ \E c \in Callers : showRUnlock(c)
    \/ \E c \in Callers : showRespond(c)
    \/ \E c \in Callers : handlerReturn(c)

PetSpec == Init /\ [][PetNext]_vars

\* the goroutines between Lock and Unlock of CreatePets
Writing == {c \in Callers : petCalls[c].op = "CreatePets"
                            /\ petCalls[c].pc \in {"id", "nextID", "store", "Unlock"}}

\* the goroutines between RLock and RUnlock of ListPets and ShowPetById
Reading == {c \in Callers : petCalls[c].op \in {"ListPets", "ShowPetById"}
                            /\ petCalls[c].pc \in {"range", "get", "RUnlock"}}

\* the creates that hold an id: taken under the lock, or already answered with 201
HoldsId(c) ==
    /\ petCalls[c].op = "CreatePets"
    /\ petCalls[c].pc \in {"nextID", "store", "Unlock", "Encode"} \/ petCalls[c].status = 201

\* C23: under every interleaving of CreatePets, ListPets and ShowPetById no two
\* creates hold the same id and no create holds the id of another pet, every
\* stored pet is keyed by its own id, nextID is greater than every stored id,
\* and the store is held by one writer or by readers, never by both
C23_ThreadSafe ==
    /\ \A c \in Callers : HoldsId(c) =>
          /\ \A d \in Callers \ {c} : HoldsId(d) => petCalls[c].pet.id # petCalls[d].pet.id
          /\ petCalls[c].pet.id \in DOMAIN ps.pets =>
                ps.pets[petCalls[c].pet.id] = petCalls[c].pet
          /\ petCalls[c].pc \in {"Unlock", "Encode", "done"} =>
                petCalls[c].pet.id \in DOMAIN ps.pets
    /\ \A k \in DOMAIN ps.pets : ps.pets[k].id = k /\ k < ps.nextID
    /\ Cardinality(Writing) <= 1
    /\ Writing # {} => Reading = {}
    /\ Writing = (IF ps.mu.w = "" THEN {} ELSE {ps.mu.w})
    /\ Reading = ps.mu.r

\* a create is about to store its pet, after an earlier create succeeded, while
\* another goroutine waits for the mutex
C23_Witness ==
    \E c \in Callers, d \in Callers :
        /\ c # d
        /\ petCalls[c].pc = "store"
        /\ petCalls[d].pc \in {"Lock", "RLock"}
        /\ 3 \in DOMAIN ps.pets

\* what a state of the store promises: a create answered with 201 returned a
\* non-zero id under which the store holds the returned pet, ShowPetById that
\* found its pet holds, and answers 200 with, the pet the store holds under that
\* id, and the two sample pets are in place
CreatedPetsStay ==
    /\ \A c \in Callers :
          /\ petCalls[c].op = "CreatePets" /\ petCalls[c].status = 201 =>
                /\ petCalls[c].out.pet.id # 0
                /\ petCalls[c].out.pet.id \in DOMAIN ps.pets
                /\ ps.pets[petCalls[c].out.pet.id] = petCalls[c].out.pet
          /\ petCalls[c].op = "ShowPetById" /\ petCalls[c].exists =>
                /\ ParseInt(petCalls[c].arg).n \in DOMAIN ps.pets
                /\ petCalls[c].pet = ps.pets[ParseInt(petCalls[c].arg).n]
                /\ petCalls[c].pc = "done" =>
                      petCalls[c].status = 200 /\ petCalls[c].out.pet = petCalls[c].pet
    /\ {1, 2} \subseteq DOMAIN ps.pets
    /\ ps.pets[1] = [id |-> 1, name |-> "Fluffy", tag |-> "cat"]
    /\ ps.pets[2] = [id |-> 2, name |-> "Rex", tag |-> "dog"]

\* what a step of the store promises: no pet is removed or changed, and the map
\* read of ShowPetById finds every pet the store holds
NoPetLost ==
    /\ \A k \in DOMAIN ps.pets : k \in DOMAIN ps'.pets /\ ps'.pets[k] = ps.pets[k]
    /\ \A c \in Callers :
          petCalls[c].pc = "get" /\ petCalls'[c].pc = "RUnlock"
          /\ ParseInt(petCalls[c].arg).n \in DOMAIN ps.pets
          => petCalls'[c].exists

\* C24: the id of a pet created with 201 is not zero and ShowPetById of that id
\* answers 200 with the same pet in every later state, whatever the store does in
\* between; the sample pets 1 and 2 are never removed or overwritten
C24_CreatedPetsPersist == [](CreatedPetsStay) /\ [][NoPetLost]_vars

\* ShowPetById answered 200 with the pet created as id 3 from a body that asked
\* for id 1, after another pet was created
C24_Witness ==
    \E c \in Callers :
        /\ petCalls[c].op = "ShowPetById" /\ petCalls[c].arg = "3"
        /\ petCalls[c].pc = "done" /\ petCalls[c].status = 200
        /\ petCalls[c].out.pet = [id |-> 3, name |-> "Al", tag |-> ""]
        /\ 4 \in DOMAIN ps.pets

\* a CreatePets call whose body does not decode or decodes to a pet without name
RejectedCreate(call) ==
    /\ call.op = "CreatePets"
    /\ Decode(call.arg).err \/ Decode(call.arg).pet.name = ""

\* the answer to a rejected create: 400 and the error entity with its message
RejectedAnswer(call) ==
    /\ call.status = 400 /\ call.out.code = 400 /\ call.out.pet = ZeroPet
    /\ call.out.message # ""
    /\ Decode(call.arg).err => call.out.message = "Invalid request body"
    /\ ~Decode(call.arg).err => Contains(call.out.message, "name")

\* C25: CreatePets with an undecodable body or without a name answers 400 with an
\* error message, which names the name when the name is missing, and no step
\* of such a call changes the store: no pet is added, nextID stays
C25_RejectedCreateLeavesStore ==
    [][\A c \in Callers :
          petCalls'[c] # petCalls[c]
          /\ (RejectedCreate(petCalls[c]) \/ RejectedCreate(petCalls'[c]))
          => /\ ps' = ps
             /\ petCalls'[c].pc \in {"", "Decode", "done"}
             /\ petCalls'[c].pc = "done" => RejectedAnswer(petCalls'[c])]_vars

\* a create without name was answered 400 after an earlier create took id 3, while
\* a create with an undecodable body was answered 400 too
C25_Witness ==
    \E c \in Callers, d \in Callers :
        /\ petCalls[c].arg = "{\"tag\":\"dog\"}" /\ petCalls[c].status = 400
        /\ petCalls[c].out.message = "Pet name is required"
        /\ petCalls[d].arg = "{" /\ petCalls[d].status = 400
        /\ ps.nextID = 4 /\ DOMAIN ps.pets = {1, 2, 3}

\* the frame that carries the identity of the server, or the placeholder when the
\* lookup failed
IdentityFrame(h) ==
    [type |-> TextMessage,
     data |-> IF h = "ok" THEN "Request served by " \o HostnameValue
              ELSE "Server hostname unknown: " \o HostnameError]

\* C21: in a WebSocket session with disclosure enabled nothing is written or read
\* before the greeting, the first frame written is the text frame with the
\* identity string or the placeholder, a client frame is read only after it,
\* and every later frame is the echo of a client frame: no second identity frame
C21_OneInitialIdentityFrame ==
    route = "ws" /\ sendHostname =>
        /\ pc \in {"ws", "ws_greet"} => wsOut = <<>> /\ wsIn = <<>>
        /\ pc \in {"ws_read", "ws_write"} \/ wsIn # <<>> => wsOut # <<>>
        /\ wsOut # <<>> => hostname \in Hostnames /\ wsOut[1] = IdentityFrame(hostname)
        /\ Len(wsOut) <= 1 + Len(wsIn)
        /\ \A k \in 2..Len(wsOut) : wsOut[k] = wsIn[k - 1]

\* the identity frame and the echoes of two client frames have been written
C21_Witness ==
    /\ route = "ws" /\ sendHostname
    /\ Len(wsOut) = 3 /\ Len(wsIn) = 2
    /\ wsOut[1].data = "Request served by " \o HostnameValue

(***************************************************************************)
(* The response headers of the three handlers that answer through wr, under *)
(* environments whose SEND_HEADER_ variables name headers the handlers      *)
(* write themselves.                                                        *)
(***************************************************************************)

\* environments with and without a SEND_HEADER_ line for Content-Type and for
\* Cache-Control
MergeEnvirons ==
    { <<"PORT=8080">>,
      <<"PORT=8080", "SEND_HEADER_CONTENT_TYPE=application/json">>,
      <<"PORT=8080", "SEND_HEADER_CACHE_CONTROL=max-age=60">>,
      <<"PORT=8080", "SEND_HEADER_CONTENT_TYPE=application/json",
        "SEND_HEADER_CACHE_CONTROL=max-age=60">> }

\* requests without handshake to the plain handler, the UI page and the SSE handler
MergeRequests ==
    { NewRequest(p, o, b) : p \in {"/test", "/.ws", "/a/.sse"},
                            o \in {NoHeaders, ("X-Send-Server-Hostname" :> <<"false">>)},
                            b \in Bodies }

MergeInit ==
    /\ environ \in MergeEnvirons
    /\ pc = "idle"
    /\ req = NoRequest
    /\ route = ""
    /\ sendHostname = TRUE
    /\ wrHeader = NoHeaders
    /\ resp = NoResponse
    /\ hostname = "uncalled"
    /\ wsOpen = FALSE
    /\ wsIn = <<>>
    /\ wsOut = <<>>
    /\ wsMessage = [type |-> 0, data |-> ""]
    /\ sseId = 0
    /\ sseOut = <<>>
    /\ ticker = "none"
    /\ tickerC = <<>>
    /\ clock = 0
    /\ cancelled = FALSE
    /\ wire = NoWire
    /\ wsErr = "nil"
    /\ broken = FALSE
    /\ rpc = NoCall
    /\ proc = Serving
    /\ ps = NewPetStore
    /\ petCalls = NoCalls
    /\ sessions = NoSessions

MergeNext ==
    \/ pc = "idle" /\ \E r \in MergeRequests : accept(WireOf(r))
    \/ serveHTTP
    \/ serveFrontend
    \/ sseUnsupported
    \/ sseStart
    \/ contextCancel
    \/ sseReturn
    \/ finishRequest

MergeSpec == MergeInit /\ [][MergeNext]_vars

\* C22: the UI page answers a non-upgrade request to .ws with status 200 and a
\* Content-Type of text/html that the handler set before the page was written,
\* so that the response the client receives carries it
C22_FrontendHeaderInResponse ==
    route = "frontend" /\ pc = "done" =>
        /\ resp.status = 200
        /\ "Content-Type" \in DOMAIN resp.header
        /\ \A i \in 1..Len(resp.header["Content-Type"]) :
              HasPrefix(resp.header["Content-Type"][i], "text/html")

\* C27: a header named by a SEND_HEADER_ variable and written by the handler too
\* has exactly one value in the response, the handler's
C27_LaterWriterWins ==
    route \in {"http", "sse"} /\ resp.status = 200 =>
        /\ resp.header["Content-Type"] =
              <<IF route = "http" THEN "text/plain" ELSE "text/event-stream">>
        /\ route = "sse" => resp.header["Cache-Control"] = <<"no-cache">>

\* C26: once the context of the request is cancelled the session writes no further
\* event, whether or not a tick is waiting in the ticker's channel
C26_NoEventAfterCancellation ==
    [][pc = "sse_loop" /\ cancelled => sseOut' = sseOut /\ resp'.body = resp.body]_vars

(***************************************************************************)
(* The handler under every setting of the two logging variables.           *)
(***************************************************************************)

\* the settings of LOG_HTTP_HEADERS and LOG_HTTP_BODY: unset or set
LogFlags ==
    { <<>>, <<"LOG_HTTP_HEADERS=1">>, <<"LOG_HTTP_BODY=1">>,
      <<"LOG_HTTP_HEADERS=1", "LOG_HTTP_BODY=1">> }

\* environments that differ in the logging variables only
LogEnvirons ==
    { base \o flags : base \in { <<"PORT=8080">>,
                                 <<"PORT=8080", "SEND_SERVER_HOSTNAME=false">>,
                                 <<"PORT=8080", "SEND_HEADER_X_FOO=bar">> },
                      flags \in LogFlags }

\* requests to each of the four handlers, with and without a body
LogRequests ==
    { r \in { NewRequest(p, u @@ o, b) :
                p \in {"/test", "/.ws", "/a/.sse"},
                u \in {NoHeaders,
                       ("Connection" :> <<"Upgrade">>) @@ ("Upgrade" :> <<"WebSocket">>)},
                o \in {NoHeaders, ("X-Send-Server-Hostname" :> <<"false">>)},
                b \in Bodies } :
        IsWebSocketUpgrade(r) => r.body = "" }

LogInit ==
    /\ environ \in LogEnvirons
    /\ pc = "idle"
    /\ req = NoRequest
    /\ route = ""
    /\ sendHostname = TRUE
    /\ wrHeader = NoHeaders
    /\ resp = NoResponse
    /\ hostname = "uncalled"
    /\ wsOpen = FALSE
    /\ wsIn = <<>>
    /\ wsOut = <<>>
    /\ wsMessage = [type |-> 0, data |-> ""]
    /\ sseId = 0
    /\ sseOut = <<>>
    /\ ticker = "none"
    /\ tickerC = <<>>
    /\ clock = 0
    /\ cancelled = FALSE
    /\ wire = NoWire
    /\ wsErr = "nil"
    /\ broken = FALSE
    /\ rpc = NoCall
    /\ proc = Serving
    /\ ps = NewPetStore
    /\ petCalls = NoCalls
    /\ sessions = NoSessions

LogNext ==
    \/ pc = "idle" /\ \E r \in LogRequests : accept(WireOf(r))
    \/ serveHTTP
    \/ serveFrontend
    \/ wsUpgrade
    \/ wsGreet
    \/ wsReadError
    \/ sseStart
    \/ contextCancel
    \/ sseReturn
    \/ finishRequest

LogSpec == LogInit /\ [][LogNext]_vars

\* the environment without its logging variables
Unflagged(env) ==
    SelectSeq(env, LAMBDA line : SplitN2(line)[1] \notin {"LOG_HTTP_HEADERS", "LOG_HTTP_BODY"})

\* what the run without logging variables sends for the request on the wire, given
\* the same outcome of os.Hostname
UnflaggedResponse(env, w, h) ==
    LET r == ReadRequest(w)
        send == SendServerHostname(Unflagged(env), r)
        envHeader == EnvHeaders(Unflagged(env), NoHeaders)
    IN  CASE Route(r) = "http" ->
                [status |-> 200, header |-> HeaderAdd(envHeader, "Content-Type", "text/plain"),
                 body |-> HTTPPrefix(send, h) \o <<writeRequest(r)>>, flushed |-> 0]
          [] Route(r) = "frontend" ->
                [status |-> 200, header |-> SniffedHeader(envHeader),
                 body |-> <<"html/frontend.tmpl.html">>, flushed |-> 0]
          [] Route(r) = "sse" ->
                LET out == WriteAll(ServerEvents(send, h)
                                      \o <<[event |-> "request", data |-> writeRequest(r)]>>,
                                    0, <<<<>>, <<>>>>)
                IN  [status |-> 200, header |-> SSEHeaders(envHeader),
                     body |-> out[2], flushed |-> Len(out[2])]
          [] OTHER -> UpgradeResponse(NoHeaders)

RECURSIVE CountCh(_, _)
\* how often the character c occurs in s
CountCh(s, c) ==
    IF s = "" THEN 0
    ELSE (IF Ch(s, 1) = c THEN 1 ELSE 0) + CountCh(SubSeq(s, 2, Len(s)), c)

\* the payload of the n-th event of the session for the request on the wire
PayloadOf(n) ==
    IF sseOut[n].event = "server" THEN HostnameValue
    ELSE IF sseOut[n].event = "request" THEN writeRequest(ReadRequest(wire))
    ELSE FormatRFC3339(CHOOSE t \in 1..(MaxTicks + 1) :
                          <<FormatRFC3339(t)>> = sseOut[n].data)

\* the bytes of one event: the event line, one data line for each of the k lines of
\* the payload, the id line and an empty line, and nothing else
WrittenAsUnit(chunk, event, payload, id) ==
    LET lines == Split(chunk, "\n")
        data == Split(payload, "\n")
        k == CountCh(payload, "\n") + 1
    IN  /\ Len(data) = k
        /\ Len(lines) = k + 4
        /\ lines[1] = "event: " \o event
        /\ \A j \in 1..k : lines[1 + j] = "data: " \o data[j]
        /\ lines[k + 2] = "id: " \o Itoa(id)
        /\ lines[k + 3] = "" /\ lines[k + 4] = ""

\* C29: every event of an SSE session is on the wire as one unit, event line, k data
\* lines for a payload of k lines, id line, empty line, in the order of the
\* events, and whenever the session waits every event written so far is flushed
C29_EventWrittenAsUnit ==
    route = "sse" /\ resp.status = 200 =>
        /\ \A n \in 1..Len(resp.body) :
              WrittenAsUnit(resp.body[n], sseOut[n].event, PayloadOf(n), n)
        /\ resp.flushed = Len(resp.body)

\* the session waits after the request event, whose payload has a body of two
\* lines, and a time event
C29_Witness ==
    /\ route = "sse" /\ pc = "sse_loop" /\ ~broken
    /\ wire.body = "a\nb"
    /\ Len(resp.body) >= 3
    /\ sseOut[Len(sseOut)].event = "time"
    /\ resp.flushed = Len(resp.body)

(***************************************************************************)
(* Concurrent connections.  The HTTP server runs handler in a goroutine of  *)
(* its own for every connection; what serveWebSocket and serveSSE keep     *)
(* (connection, message, id, ticker) are local variables of that call.     *)
(***************************************************************************)

\* the frames a client sends on a concurrent connection
SessionFrames == { [type |-> TextMessage, data |-> "hi"], [type |-> BinaryMessage, data |-> ""] }

\* the request that opens an SSE session
SessionRequest == NewRequest("/.sse", NoHeaders, "")

sessionVars ==
    <<environ, pc, req, route, sendHostname, wrHeader, resp, hostname, wsOpen, wsIn,
      wsOut, wsMessage, sseId, sseOut, ticker, tickerC, clock, cancelled, wire, wsErr,
      broken, rpc, proc, ps, petCalls>>

\* a slip: one counter for the ids of all sessions
SessionIdShared(s, c) ==
    CHOOSE n \in {s[d].id : d \in Conns} : \A d \in Conns : s[d].id <= n

\* var id int: the counter of the serveSSE call of connection c
SessionId(s, c) == s[c].id

\* serveWebSocket on connection c: Upgrade succeeds
sessionUpgrade(c) ==
    /\ sessions[c] = NoSession
    /\ sessions' = [sessions EXCEPT ![c] = [NoSession EXCEPT !.kind = "ws", !.pc = "ws_greet"]]
    /\ UNCHANGED sessionVars

\* the first WriteMessage on connection c, which may fail
sessionGreet(c) ==
    /\ sessions[c].pc = "ws_greet"
    /\ \E ok \in BOOLEAN :
        sessions' = [sessions EXCEPT ![c] =
            IF ok
            THEN [@ EXCEPT !.out = <<[type |-> TextMessage, data |-> Greeting(TRUE, "ok")]>>,
                           !.pc = "ws_read"]
            ELSE [@ EXCEPT !.pc = "closed"]]
    /\ UNCHANGED sessionVars

\* ReadMessage on connection c returns the client's next frame
sessionRead(c) ==
    /\ sessions[c].pc = "ws_read"
    /\ Len(sessions[c].in) < MaxFrames
    /\ \E f \in SessionFrames :
        sessions' = [sessions EXCEPT ![c] =
            [@ EXCEPT !.in = Append(@, f), !.message = f, !.pc = "ws_write"]]
    /\ UNCHANGED sessionVars

\* ReadMessage on connection c returns an error; the deferred Close runs
sessionReadError(c) ==
    /\ sessions[c].pc = "ws_read"
    /\ sessions' = [sessions EXCEPT ![c].pc = "closed"]
    /\ UNCHANGED sessionVars

\* WriteMessage(messageType, message) on connection c, which may fail
sessionWrite(c) ==
    /\ sessions[c].pc = "ws_write"
    /\ \E ok \in BOOLEAN :
        sessions' = [sessions EXCEPT ![c] =
            IF ok
            THEN [@ EXCEPT !.out = Append(@, EchoFrame(sessions[c].message.type,
                                                       sessions[c].message.data)),
                           !.pc = "ws_read"]
            ELSE [@ EXCEPT !.pc = "closed"]]
    /\ UNCHANGED sessionVars

\* serveSSE on connection c up to the loop: the server and request events, the ticker
sessionStart(c) ==
    /\ sessions[c] = NoSession
    /\ LET out == WriteAll(ServerEvents(TRUE, "ok")
                             \o <<[event |-> "request", data |-> writeRequest(SessionRequest)]>>,
                           SessionId(sessions, c), <<<<>>, <<>>>>)
       IN  sessions' = [sessions EXCEPT ![c] =
               [NoSession EXCEPT !.kind = "sse", !.pc = "sse_loop", !.events = out[1],
                                 !.out = out[2], !.id = out[3], !.ticker = "running"]]
    /\ UNCHANGED sessionVars

\* the ticker of connection c delivers a tick into its channel of capacity one
sessionTimerFire(c) ==
    /\ sessions[c].ticker = "running"
    /\ sessions[c].clock < MaxTicks
    /\ sessions' = [sessions EXCEPT ![c] =
           [@ EXCEPT !.clock = @ + 1,
                     !.tickerC = IF @ = <<>> THEN <<sessions[c].clock + 1>> ELSE @]]
    /\ UNCHANGED sessionVars

\* the context of the request on connection c is cancelled
sessionCancel(c) ==
    /\ sessions[c].pc = "sse_loop"
    /\ ~sessions[c].cancelled
    /\ sessions' = [sessions EXCEPT ![c].cancelled = TRUE]
    /\ UNCHANGED sessionVars

\* case t := <-ticker.C on connection c
sessionTick(c) ==
    /\ sessions[c].pc = "sse_loop"
    /\ sessions[c].tickerC # <<>>
    /\ LET id == SessionId(sessions, c)
           t == FormatRFC3339(Head(sessions[c].tickerC))
       IN  sessions' = [sessions EXCEPT ![c] =
               [@ EXCEPT !.events = Append(@, SSEEvent(id, "time", t)),
                         !.out = Append(@, SSEWire(id, "time", t)),
                         !.id = NextId(id),
                         !.tickerC = <<>>]]
    /\ UNCHANGED sessionVars

\* case <-req.Context().Done() on connection c; the deferred ticker.Stop() runs
sessionReturn(c) ==
    /\ sessions[c].pc = "sse_loop"
    /\ sessions[c].cancelled
    /\ sessions' = [sessions EXCEPT ![c] = [@ EXCEPT !.pc = "closed", !.ticker = "stopped"]]
    /\ UNCHANGED sessionVars

ConcurrentNext ==
    \/ \E c \in Conns : sessionUpgrade(c)
    \/ \E c \in Conns : sessionGreet(c)
    \/ \E c \in Conns : sessionRead(c)
    \/ \E c \in Conns : sessionReadError(c)
    \/ \E c \in Conns : sessionWrite(c)
    \/ \E c \in Conns : sessionStart(c)
    \/ \E c \in Conns : sessionTimerFire(c)
    \/ \E c \in Conns : sessionCancel(c)
    \/ \E c \in Conns : sessionTick(c)
    \/ \E c \in Conns : sessionReturn(c)

ConcurrentSpec == Init /\ [][ConcurrentNext]_vars

\* what every state of concurrent sessions shows: a WebSocket session has written,
\* after its greeting, the frames read on its own connection and nothing else; the
\* ids of an SSE session are 1, 2, 3, ... whatever other sessions there are
SessionsOwnTheirState ==
    \A c \in Conns :
        /\ sessions[c].kind = "ws" =>
              /\ Len(sessions[c].out) <= 1 + Len(sessions[c].in)
              /\ \A k \in 2..Len(sessions[c].out) : sessions[c].out[k] = sessions[c].in[k - 1]
        /\ sessions[c].kind = "sse" =>
              /\ Len(sessions[c].events) = Len(sessions[c].out)
              /\ \A i \in 1..Len(sessions[c].events) :
                    /\ sessions[c].events[i].id = i
                    /\ HasSuffix(sessions[c].out[i], "id: " \o Itoa(i) \o "\n\n")

\* what every step shows: a step of one session, its end included, leaves every
\* other session as it is
OneSessionPerStep ==
    \A c \in Conns, d \in Conns :
        c # d /\ sessions'[c] # sessions[c] => sessions'[d] = sessions[d]

\* C30: sessions of concurrent connections are independent: a frame read on one
\* WebSocket session is written to that session only, the ids of every SSE session
\* count 1, 2, 3, ..., and the end of one session does not end or change another
C30_SessionsIndependent == [](SessionsOwnTheirState) /\ [][OneSessionPerStep]_vars

\* a WebSocket session has echoed a frame and goes on while an SSE session on the
\* other connection, which wrote a time event, has ended
C30_Witness ==
    \E c \in Conns, d \in Conns :
        /\ sessions[c].kind = "ws" /\ sessions[c].pc = "ws_read"
        /\ Len(sessions[c].out) >= 2
        /\ sessions[d].kind = "sse" /\ sessions[d].pc = "closed"
        /\ Len(sessions[d].events) >= 3

====
